---- MODULE Spec2Model ----
(***************************************************************************)
(* HyGCS: the hierarchical geochemical phase classifier                    *)
(* (hygcs/gcs_classification.py) and the run of classify_geochemical_phase *)
(* over the segments of several sites.                                     *)
(*                                                                         *)
(* Numbers are integers: concentration and discharge differences and the  *)
(* percentile thresholds in source units; hysteresis indices, C-Q slopes,  *)
(* CVc/CVq, WAI and confidences in hundredths (0.12 is 12, 0.98 is 98);    *)
(* days since peak in days.  A float NaN is the value NaN, a key that a    *)
(* row does not hold is the value Missing (numbers) or "missing" (tags),   *)
(* and a NaN stored in a column of tags is the tag "nan".                  *)
(***************************************************************************)
EXTENDS Integers, Sequences, FiniteSets, TLC

NaN == 99999
Missing == 88888

\* ------------------------------------------------------------------------
\* Float comparisons: every comparison with a NaN operand is False.
\* ------------------------------------------------------------------------
IsNaN(x) == x = NaN
IsNum(x) == x # NaN /\ x # Missing
Lt(a, b) == ~IsNaN(a) /\ ~IsNaN(b) /\ a < b
Gt(a, b) == ~IsNaN(a) /\ ~IsNaN(b) /\ a > b
Le(a, b) == ~IsNaN(a) /\ ~IsNaN(b) /\ a <= b
Abs(x) == IF IsNaN(x) THEN NaN ELSE IF x < 0 THEN -x ELSE x
Min(a, b) == IF a <= b THEN a ELSE b

\* row.get(key, default) for a numeric and for a tag column
Get(v, d) == IF v = Missing THEN d ELSE v
GetTag(v, d) == IF v = "missing" THEN d ELSE v

\* ------------------------------------------------------------------------
\* classify_segment_phase: the variables it extracts from the row
\* ------------------------------------------------------------------------
hi_zuecco(row) == Get(row.window_HI_zuecco, 0)
hi_lloyd(row) == Get(row.window_HI_lloyd, 0)
hi_harp(row) == Get(row.window_HI_harp, 0)

HiMutLloydFirst(row) ==
  IF ~IsNaN(hi_lloyd(row)) THEN hi_lloyd(row)
  ELSE IF ~IsNaN(hi_zuecco(row)) THEN hi_zuecco(row)
  ELSE IF ~IsNaN(hi_harp(row)) THEN hi_harp(row)
  ELSE 0

\* Zuecco as primary, falling back to Lloyd, HARP, then 0.0
Hi(row) ==
  IF ~IsNaN(hi_zuecco(row)) THEN hi_zuecco(row)
  ELSE IF ~IsNaN(hi_lloyd(row)) THEN hi_lloyd(row)
  ELSE IF ~IsNaN(hi_harp(row)) THEN hi_harp(row)
  ELSE 0

q_pos(row) == GetTag(row.Q_position, "medium")
c_pos(row) == GetTag(row.C_position, "medium")
flow_diff(row) == Get(row.flow_diff, 0)
conc_diff(row) == Get(row.conc_diff, 0)
cvc_cvq(row) == Get(row.CVc_CVq, NaN)
cq_slope(row) == Get(row.cq_slope_loglog, NaN)
flow_phase(row) == GetTag(row.highres_flow_phase, "unknown")
days_since_peak(row) == Get(row.highres_days_since_peak, NaN)
q_level(row) == GetTag(row.highres_q_level, q_pos(row))
hi_transition(row) == GetTag(row.HI_transition, "stable")
prev_c_pos(row) == GetTag(row.prev_C_position, "none")
prev_conc_diff(row) == Get(row.prev_conc_diff, 0)
prev2_conc_diff(row) == Get(row.prev2_conc_diff, 0)
c_trajectory(row) == GetTag(row.C_trajectory, "stable")
wai(row) == Get(row.WAI, NaN)

\* ------------------------------------------------------------------------
\* The predicates of the rule tree
\* ------------------------------------------------------------------------
current_steep(row, p) == Lt(conc_diff(row), p.dC_p08)
prev_steep(row, p) == Lt(prev_conc_diff(row), p.dC_p08)
prev2_steep(row, p) == Lt(prev2_conc_diff(row), p.dC_p08)
q_at_peak(row) == flow_phase(row) \in {"at_peak", "rising", "early_decline"}
q_high(row) == q_level(row) \in {"high", "medium"} \/ q_pos(row) = "high"
c_was_high(row) ==
  \/ prev_c_pos(row) = "high"
  \/ c_pos(row) = "high"
  \/ c_trajectory(row) \in {"steep_decline_from_high", "steep_decline"}
cq_slope_positive(row) == ~IsNaN(cq_slope(row)) /\ cq_slope(row) > 15
c_high_rising(row) == c_pos(row) = "high" /\ Gt(conc_diff(row), 0)
q_not_peaked(row) == flow_phase(row) \notin {"at_peak", "early_decline"}
cq_slope_negative(row) == ~IsNaN(cq_slope(row)) /\ cq_slope(row) < -15
in_post_flush(row, p) ==
  \/ Lt(prev_conc_diff(row), p.dC_p25)
  \/ Lt(prev2_conc_diff(row), p.dC_p08)
post_peak(row) ==
  \/ flow_phase(row) \in {"post_peak", "late_decline"}
  \/ (~IsNaN(days_since_peak(row)) /\ days_since_peak(row) > 5
        /\ days_since_peak(row) < 30)
cq_slope_flat(row) == IsNaN(cq_slope(row)) \/ Abs(cq_slope(row)) < 10
post_peak_phase(row) ==
  \/ flow_phase(row) \in {"post_peak", "late_decline", "stable"}
  \/ (~IsNaN(days_since_peak(row)) /\ days_since_peak(row) > 5)
q_declining_moderate(row) == Lt(flow_diff(row), 0)
c_stable_or_recovering(row, p) == Lt(Abs(conc_diff(row)), p.abs_dC_p75)
prev_c_declining(row, p) == Lt(prev_conc_diff(row), p.dC_p25)
prev2_c_declining(row, p) == Lt(prev2_conc_diff(row), p.dC_p08)
c_depleted(row) == c_pos(row) \in {"low", "medium"}
late_cycle(row) ==
  flow_phase(row) \in {"low", "late_decline"} \/ q_level(row) = "low"
both_declining(row, p) ==
  Lt(flow_diff(row), p.dQ_p25) /\ Lt(conc_diff(row), p.dC_p25)

\* A level's outcome: it returns (phase, confidence, rules), or it passes the
\* rule trail on to the next level.
Ret(phase, confidence, rules) ==
  [ret |-> TRUE, phase |-> phase, confidence |-> confidence, rules |-> rules]
Pass(rules) ==
  [ret |-> FALSE, phase |-> "", confidence |-> 0, rules |-> rules]
When(cond, names) == IF cond THEN names ELSE <<>>

WaiBoostMutLarge(confidence) == confidence + 30

\* min(0.98, confidence + 0.03)
WaiBoost(confidence) == Min(98, confidence + 3)

\* ------------------------------------------------------------------------
\* PRIORITY 1: FLUSHING
\* ------------------------------------------------------------------------
FlushingCurrent(row, p, rules) ==
  LET base == IF cq_slope_positive(row)
              THEN (IF c_was_high(row) THEN 95 ELSE 90)
              ELSE (IF c_was_high(row) THEN 92 ELSE 85)
      wet == ~IsNaN(wai(row)) /\ wai(row) > 100
  IN Ret("F",
         IF wet THEN WaiBoost(base) ELSE base,
         rules \o <<"current_steep_decline", "q_high_or_peak">>
               \o When(cq_slope_positive(row), <<"positive_cq_slope_dilution">>)
               \o When(c_was_high(row), <<"c_was_high">>)
               \o When(wet, <<"high_wai_wet">>))

FlushingExtreme(row, p, rules) ==
  IF Lt(conc_diff(row), p.dC_p01)
  THEN IF cq_slope_positive(row)
       THEN Ret("F", 92, rules \o <<"extreme_decline", "positive_cq_slope_strong">>)
       ELSE IF Gt(flow_diff(row), 0) \/ q_pos(row) \in {"high", "medium"}
            THEN Ret("F", 88, rules \o <<"extreme_decline", "q_elevated">>)
            ELSE Pass(rules \o <<"extreme_decline">>)
  ELSE Pass(rules)

FlushingExtended(row, p, rules) ==
  IF prev2_steep(row, p) /\ q_at_peak(row)
  THEN Ret("F",
           IF cq_slope_positive(row) THEN 75 ELSE 70,
           rules \o <<"prev2_steep_decline", "q_at_peak">>
                 \o When(cq_slope_positive(row), <<"positive_cq_slope">>))
  ELSE FlushingExtreme(row, p, rules)

FlushingAftermath(row, p, rules) ==
  IF /\ prev_steep(row, p) /\ q_high(row)
     /\ ~IsNaN(days_since_peak(row)) /\ days_since_peak(row) < 15
  THEN IF Lt(Abs(conc_diff(row)), p.abs_dC_p75)
       THEN Ret("F",
                IF cq_slope_positive(row) THEN 85 ELSE 80,
                rules \o <<"prev_steep_decline", "q_high", "recent_peak",
                           "aftermath_stable">>
                      \o When(cq_slope_positive(row),
                              <<"positive_cq_slope_confirms">>))
       ELSE FlushingExtended(row, p,
                rules \o <<"prev_steep_decline", "q_high", "recent_peak">>)
  ELSE FlushingExtended(row, p, rules)

Flushing(row, p, rules) ==
  IF current_steep(row, p) /\ (q_at_peak(row) \/ q_high(row))
  THEN FlushingCurrent(row, p, rules)
  ELSE FlushingAftermath(row, p, rules)

\* ------------------------------------------------------------------------
\* PRIORITY 2: LOADING
\* ------------------------------------------------------------------------
LoadingHighRising(row, p, rules) ==
  LET base == IF cq_slope_negative(row)
              THEN (IF q_not_peaked(row) THEN 95 ELSE 92)
              ELSE (IF q_not_peaked(row) THEN 90 ELSE 80)
      dry == ~IsNaN(wai(row)) /\ wai(row) < -100
  IN Ret("L",
         IF dry THEN WaiBoost(base) ELSE base,
         rules \o <<"c_high", "c_rising">>
               \o When(cq_slope_negative(row), <<"negative_cq_slope_enrichment">>)
               \o When(q_not_peaked(row), <<"q_not_peaked">>)
               \o When(dry, <<"low_wai_accumulation">>))

LoadingLargeIncrease(row, p, rules) ==
  IF Gt(conc_diff(row), p.dC_p90)
  THEN IF Le(flow_diff(row), p.dQ_p75)
       THEN Ret("L",
                IF cq_slope_negative(row) THEN 90 ELSE 85,
                rules \o <<"large_c_increase", "q_stable">>
                      \o When(cq_slope_negative(row),
                              <<"negative_cq_slope_confirms">>))
       ELSE Pass(rules \o <<"large_c_increase">>)
  ELSE Pass(rules)

Loading(row, p, rules) ==
  IF c_high_rising(row)
  THEN LoadingHighRising(row, p, rules)
  ELSE LoadingLargeIncrease(row, p, rules)

\* ------------------------------------------------------------------------
\* PRIORITY 3: CHEMOSTATIC
\* ------------------------------------------------------------------------
ChemostaticMutNaNNotFlat(row, p, rules) ==
  IF Abs(Hi(row)) < 12 /\ hi_transition(row) = "stable"
  THEN LET flat == Lt(Abs(cq_slope(row)), 10)
           r == rules \o <<"low_hi", "stable_hi">>
                      \o When(flat, <<"flat_cq_slope_chemostatic">>)
       IN IF /\ ~(c_high_rising(row)
                   \/ (q_high(row) /\ Gt(Abs(conc_diff(row)), p.abs_dC_p75)))
             /\ ~(in_post_flush(row, p) /\ post_peak(row))
          THEN Ret("C", IF flat THEN 90 ELSE 85, r \o <<"not_dynamic">>)
          ELSE Pass(r)
  ELSE Pass(rules)

Chemostatic(row, p, rules) ==
  IF Abs(Hi(row)) < 12 /\ hi_transition(row) = "stable"
  THEN LET r == rules \o <<"low_hi", "stable_hi">>
                      \o When(cq_slope_flat(row), <<"flat_cq_slope_chemostatic">>)
       IN IF /\ ~(c_high_rising(row)
                   \/ (q_high(row) /\ Gt(Abs(conc_diff(row)), p.abs_dC_p75)))
             /\ ~(in_post_flush(row, p) /\ post_peak(row))
          THEN Ret("C", IF cq_slope_flat(row) THEN 90 ELSE 85,
                   r \o <<"not_dynamic">>)
          ELSE Pass(r)
  ELSE Pass(rules)

\* ------------------------------------------------------------------------
\* PRIORITY 4: DILUTION
\* ------------------------------------------------------------------------
DilutionAlternative(row, p, rules) ==
  IF /\ post_peak_phase(row)
     /\ Lt(flow_diff(row), p.dQ_p10)
     /\ Lt(Abs(conc_diff(row)), p.abs_dC_p75)
  THEN IF prev_c_declining(row, p) \/ prev2_c_declining(row, p)
       THEN Ret("D", 80, rules \o <<"post_peak", "large_q_drop",
                                    "c_not_changing", "recent_flush">>)
       ELSE Pass(rules \o <<"post_peak", "large_q_drop", "c_not_changing">>)
  ELSE Pass(rules)

DilutionMutFixedDrop(row, p, rules) ==
  IF /\ post_peak_phase(row) /\ Lt(flow_diff(row), -30)
     /\ c_stable_or_recovering(row, p)
     /\ (prev_c_declining(row, p) \/ prev2_c_declining(row, p))
  THEN LET r == rules \o <<"post_peak", "q_declining", "c_stable", "recent_flush">>
       IN IF c_depleted(row)
          THEN Ret("D", 85, r \o <<"c_depleted">>)
          ELSE Ret("D", 75, r)
  ELSE DilutionAlternative(row, p, rules)

\* Post-flush recovery: Q declining, C stabilizing after recent flush
Dilution(row, p, rules) ==
  IF /\ post_peak_phase(row) /\ q_declining_moderate(row)
     /\ c_stable_or_recovering(row, p)
     /\ (prev_c_declining(row, p) \/ prev2_c_declining(row, p))
  THEN LET r == rules \o <<"post_peak", "q_declining", "c_stable", "recent_flush">>
       IN IF c_depleted(row)
          THEN Ret("D", 85, r \o <<"c_depleted">>)
          ELSE Ret("D", 75, r)
  ELSE DilutionAlternative(row, p, rules)

\* ------------------------------------------------------------------------
\* PRIORITY 5: RECESSION
\* ------------------------------------------------------------------------
RecessionBoth(row, p, rules) ==
  IF both_declining(row, p) /\ late_cycle(row)
  THEN Ret("R", 70, rules \o <<"both_declining", "late_cycle">>)
  ELSE Pass(rules)

Recession(row, p, rules) ==
  IF ~IsNaN(cvc_cvq(row)) /\ cvc_cvq(row) < 80
  THEN IF Lt(flow_diff(row), p.dQ_p25)
       THEN IF late_cycle(row)
            THEN Ret("R", 85, rules \o <<"low_cvc_cvq", "q_declining", "late_cycle">>)
            ELSE Ret("R", 75, rules \o <<"low_cvc_cvq", "q_declining">>)
       ELSE RecessionBoth(row, p, rules \o <<"low_cvc_cvq">>)
  ELSE RecessionBoth(row, p, rules)

\* ------------------------------------------------------------------------
\* FALLBACK: VARIABLE
\* ------------------------------------------------------------------------
VariableMutSwapped(row, p, rules) ==
  Ret("V",
      IF Lt(Abs(conc_diff(row)), 30) /\ Lt(Abs(flow_diff(row)), 30)
      THEN 40 ELSE 60,
      rules \o <<"fallback_variable">>)

Variable(row, p, rules) ==
  Ret("V",
      IF Lt(Abs(conc_diff(row)), 30) /\ Lt(Abs(flow_diff(row)), 30)
      THEN 60 ELSE 40,
      rules \o <<"fallback_variable">>)

\* ------------------------------------------------------------------------
\* classify_segment_phase: the levels in order, the first that returns wins
\* ------------------------------------------------------------------------
LevelMutLoadingFirst(n, row, p, rules) ==
  CASE n = 1 -> Loading(row, p, rules)
    [] n = 2 -> Flushing(row, p, rules)
    [] n = 3 -> Chemostatic(row, p, rules)
    [] n = 4 -> Dilution(row, p, rules)
    [] n = 5 -> Recession(row, p, rules)
    [] OTHER -> Variable(row, p, rules)

Level(n, row, p, rules) ==
  CASE n = 1 -> Flushing(row, p, rules)
    [] n = 2 -> Loading(row, p, rules)
    [] n = 3 -> Chemostatic(row, p, rules)
    [] n = 4 -> Dilution(row, p, rules)
    [] n = 5 -> Recession(row, p, rules)
    [] OTHER -> Variable(row, p, rules)

RECURSIVE Cascade(_, _, _, _)
Cascade(n, row, p, rules) ==
  LET r == Level(n, row, p, rules)
  IN IF r.ret THEN r ELSE Cascade(n + 1, row, p, r.rules)

classify_segment_phase(row, p) == Cascade(1, row, p, <<>>)

\* ------------------------------------------------------------------------
\* Inputs of classify_segment_phase: threshold tables and rows
\* ------------------------------------------------------------------------
\* A table as compute_change_percentiles and the Q/C quantiles give it for a
\* compound whose changes scatter around zero.
TableMixed ==
  [Q_p25 |-> 10, Q_p50 |-> 20, Q_p75 |-> 30,
   C_p25 |-> 10, C_p50 |-> 20, C_p75 |-> 30,
   dC_p01 |-> -30, dC_p08 |-> -20, dC_p25 |-> -3, dC_p75 |-> 3, dC_p90 |-> 20,
   dQ_p10 |-> -20, dQ_p25 |-> -3, dQ_p75 |-> 3,
   abs_dC_p50 |-> 4, abs_dC_p75 |-> 10]

\* A compound that rose between nearly all samples, with rising flow: the low
\* percentiles of the changes are positive.
TableRising ==
  [Q_p25 |-> 10, Q_p50 |-> 20, Q_p75 |-> 30,
   C_p25 |-> 10, C_p50 |-> 20, C_p75 |-> 30,
   dC_p01 |-> 2, dC_p08 |-> 8, dC_p25 |-> 10, dC_p75 |-> 30, dC_p90 |-> 38,
   dQ_p10 |-> 2, dQ_p25 |-> 4, dQ_p75 |-> 30,
   abs_dC_p50 |-> 20, abs_dC_p75 |-> 30]

\* A compound that fell between nearly all samples, with falling flow.
TableFalling ==
  [Q_p25 |-> 10, Q_p50 |-> 20, Q_p75 |-> 30,
   C_p25 |-> 10, C_p50 |-> 20, C_p75 |-> 30,
   dC_p01 |-> -45, dC_p08 |-> -38, dC_p25 |-> -30, dC_p75 |-> -10, dC_p90 |-> -2,
   dQ_p10 |-> -38, dQ_p25 |-> -30, dQ_p75 |-> -4,
   abs_dC_p50 |-> 20, abs_dC_p75 |-> 30]

Tables == {TableMixed, TableRising, TableFalling}

Positions == {"low", "medium", "high"}
FlowPhases == {"unknown", "at_peak", "rising", "early_decline", "late_decline",
               "post_peak", "low", "stable"}
Transitions == {"stable", "first", "pos_to_neg", "neg_to_pos"}
Trajectories == {"steep_decline_from_high", "steep_decline", "gradual_decline",
                 "rising_to_max", "large_increase", "moderate_increase",
                 "at_maximum", "stable"}
Diffs == {-40, -25, -5, 0, 5, 25, 40}

\* The values each column of a row is drawn from
FieldValues ==
  [window_HI_zuecco |-> {Missing, NaN, 5, 20},
   window_HI_lloyd |-> {Missing, NaN, 6, -21},
   window_HI_harp |-> {Missing, NaN, 7, 22},
   Q_position |-> {"missing"} \cup Positions,
   C_position |-> {"missing"} \cup Positions,
   flow_diff |-> Diffs,
   conc_diff |-> Diffs,
   CVc_CVq |-> {Missing, NaN, 50, 120},
   cq_slope_loglog |-> {Missing, NaN, -20, -12, 0, 12, 20},
   highres_flow_phase |-> {"missing", "nan"} \cup FlowPhases,
   highres_days_since_peak |-> {Missing, NaN, 0, 3, 10, 20, 40},
   highres_q_level |-> {"missing", "nan"} \cup Positions,
   HI_transition |-> {"missing", "nan"} \cup Transitions,
   prev_C_position |-> {"missing", "nan", "none"} \cup Positions,
   prev_conc_diff |-> {Missing, NaN} \cup Diffs,
   prev2_conc_diff |-> {Missing, NaN} \cup Diffs,
   C_trajectory |-> {"missing"} \cup Trajectories,
   WAI |-> {Missing, NaN, -200, 0, 200}]

Fields == DOMAIN FieldValues

\* A segment as the run without high-resolution data hands it over: small
\* changes, no window metrics.
RowPlain ==
  [window_HI_zuecco |-> Missing, window_HI_lloyd |-> Missing,
   window_HI_harp |-> Missing,
   Q_position |-> "medium", C_position |-> "medium",
   flow_diff |-> 0, conc_diff |-> 0,
   CVc_CVq |-> NaN, cq_slope_loglog |-> NaN,
   highres_flow_phase |-> "unknown", highres_days_since_peak |-> NaN,
   highres_q_level |-> "missing", HI_transition |-> "stable",
   prev_C_position |-> "none", prev_conc_diff |-> 0, prev2_conc_diff |-> 0,
   C_trajectory |-> "missing", WAI |-> Missing]

\* Segments of a run with high-resolution data: a strong window hysteresis
\* (so the row is not chemostatic), and the setting of one level each.
RowDynamic ==
  [RowPlain EXCEPT !.window_HI_zuecco = 20, !.window_HI_lloyd = -21,
                   !.window_HI_harp = 22, !.highres_q_level = "medium",
                   !.highres_flow_phase = "stable",
                   !.highres_days_since_peak = 3,
                   !.C_trajectory = "stable", !.CVc_CVq = 120,
                   !.cq_slope_loglog = 12]
RowPostFlush ==
  [RowDynamic EXCEPT !.highres_flow_phase = "post_peak",
                     !.highres_days_since_peak = 10,
                     !.flow_diff = -5, !.prev_conc_diff = -25,
                     !.prev_C_position = "high"]
RowRecession ==
  [RowDynamic EXCEPT !.CVc_CVq = 50, !.flow_diff = -40,
                     !.highres_flow_phase = "late_decline",
                     !.highres_q_level = "low", !.Q_position = "low"]
RowLoading ==
  [RowDynamic EXCEPT !.C_position = "high", !.conc_diff = 5,
                     !.highres_flow_phase = "rising"]
RowFlushing ==
  [RowDynamic EXCEPT !.conc_diff = -40, !.flow_diff = 40,
                     !.highres_flow_phase = "at_peak",
                     !.highres_days_since_peak = 0,
                     !.highres_q_level = "high", !.Q_position = "high",
                     !.cq_slope_loglog = 20, !.WAI = 200]

BaseRows == {RowPlain, RowDynamic, RowPostFlush, RowRecession, RowLoading,
             RowFlushing}

\* How many columns of a base row are replaced at once
MaxVary == 2

FieldSeq ==
  <<"window_HI_zuecco", "window_HI_lloyd", "window_HI_harp", "Q_position",
    "C_position", "flow_diff", "conc_diff", "CVc_CVq", "cq_slope_loglog",
    "highres_flow_phase", "highres_days_since_peak", "highres_q_level",
    "HI_transition", "prev_C_position", "prev_conc_diff", "prev2_conc_diff",
    "C_trajectory", "WAI">>

\* ------------------------------------------------------------------------
\* classify_cq_behavior_simple.  Differences and ranges in one unit, which
\* is coarser than 1e-10; threshold_factor in hundredths.
\* ------------------------------------------------------------------------
\* abs(diff) > threshold_factor * delta if delta > 1e-10 else False
IsChanging(diff, delta, threshold_factor) ==
  IF delta > 0 THEN 100 * Abs(diff) > threshold_factor * delta ELSE FALSE

BehaviorMutOneSignificant(dQ, dC, flow_range, conc_range, threshold_factor) ==
  IF dQ > 0 /\ dC > 0 THEN "connectivity"
  ELSE IF dQ < 0 /\ dC < 0 THEN "recovery"
  ELSE IF dQ > 0 /\ dC < 0 THEN "dispersion"
  ELSE IF dQ < 0 /\ dC > 0 THEN "accumulation"
  ELSE "static"

classify_cq_behavior_simple(dQ, dC, flow_range, conc_range, threshold_factor) ==
  LET flow_delta == flow_range[2] - flow_range[1]
      conc_delta == conc_range[2] - conc_range[1]
      is_flow_changing == IsChanging(dQ, flow_delta, threshold_factor)
      is_conc_changing == IsChanging(dC, conc_delta, threshold_factor)
  IN IF ~is_flow_changing /\ ~is_conc_changing THEN "static"
     ELSE IF is_flow_changing /\ ~is_conc_changing THEN "quasi-chemostatic"
     ELSE IF ~is_flow_changing /\ is_conc_changing THEN "source variation"
     ELSE IF dQ > 0 /\ dC > 0 THEN "connectivity"
     ELSE IF dQ < 0 /\ dC < 0 THEN "recovery"
     ELSE IF dQ > 0 /\ dC < 0 THEN "dispersion"
     ELSE "accumulation"

\* ------------------------------------------------------------------------
\* compute_cq_slope.  Slopes in hundredths; log10 in units of 1e-5.
\* ------------------------------------------------------------------------
\* np.log10 on the values the inputs are drawn from
Log10(x) ==
  CASE x = 1 -> 0
    [] x = 2 -> 30103
    [] x = 4 -> 60206
    [] x = 5 -> 69897
    [] x = 10 -> 100000
    [] x = 20 -> 130103
    [] x = 40 -> 160206
    [] x = 100 -> 200000

\* Float division n / d, in hundredths, cut towards zero
Ratio(n, d) ==
  LET s == IF (n < 0) = (d < 0) THEN 1 ELSE -1
  IN s * ((100 * Abs(n)) \div Abs(d))

\* eps is 1e-12 in the unit q1 and q2 are given in, rounded up to a whole
\* unit; 1e-12 is below one unit of Log10.
SlopeWithinMutNoLog(q1, q2, c1, c2, kind, eps) ==
  IF kind = "linear"
  THEN LET dq == q2 - q1
       IN IF Abs(dq) < eps THEN NaN ELSE Ratio(c2 - c1, dq)
  ELSE IF q1 <= 0 \/ q2 <= 0 \/ c1 <= 0 \/ c2 <= 0 THEN NaN
  ELSE LET dlog10q == q2 - q1
       IN IF Abs(dlog10q) < 1 THEN NaN
          ELSE Ratio(c2 - c1, dlog10q)

SlopeWithin(q1, q2, c1, c2, kind, eps) ==
  IF kind = "linear"
  THEN LET dq == q2 - q1
       IN IF Abs(dq) < eps THEN NaN ELSE Ratio(c2 - c1, dq)
  ELSE IF q1 <= 0 \/ q2 <= 0 \/ c1 <= 0 \/ c2 <= 0 THEN NaN
  ELSE LET dlog10q == Log10(q2) - Log10(q1)
       IN IF Abs(dlog10q) < 1 THEN NaN
          ELSE Ratio(Log10(c2) - Log10(c1), dlog10q)

\* The call on values in their natural unit, which is coarser than 1e-12
compute_cq_slope(q1, q2, c1, c2, kind) == SlopeWithin(q1, q2, c1, c2, kind, 1)

\* ------------------------------------------------------------------------
\* _build_segments.  An observation is a row [site_id, date, Q, C]; the
\* data carry no HydPhase column.
\* ------------------------------------------------------------------------
\* The order of site ids as strings
SiteRank(s) == CASE s = "A" -> 1 [] s = "B" -> 2 [] s = "X" -> 3

InList(s, list) == \E k \in DOMAIN list : list[k] = s

\* dropna(subset=[qcol, ccol, 'date'])
HasAll(o) == ~IsNaN(o.Q) /\ ~IsNaN(o.C) /\ ~IsNaN(o.date)

\* sort_values(['site_id', 'date'])
Before(a, b) ==
  \/ SiteRank(a.site_id) < SiteRank(b.site_id)
  \/ a.site_id = b.site_id /\ a.date < b.date

RECURSIVE InsertObs(_, _)
InsertObs(o, sorted) ==
  IF sorted = <<>> THEN <<o>>
  ELSE IF Before(o, Head(sorted)) THEN <<o>> \o sorted
  ELSE <<Head(sorted)>> \o InsertObs(o, Tail(sorted))

RECURSIVE SortObs(_)
SortObs(df) ==
  IF df = <<>> THEN <<>>
  ELSE InsertObs(df[Len(df)], SortObs(SubSeq(df, 1, Len(df) - 1)))

\* analysis_data[col].min() and .max()
ColMin(df, col) ==
  CHOOSE v \in {df[k][col] : k \in DOMAIN df} :
    \A k \in DOMAIN df : v <= df[k][col]
ColMax(df, col) ==
  CHOOSE v \in {df[k][col] : k \in DOMAIN df} :
    \A k \in DOMAIN df : v >= df[k][col]

\* One segment, from p1 = site_data.iloc[i] to p2 = site_data.iloc[i + 1];
\* segment_id is the 0-based i
Segment(site, i, p1, p2, flow_range, conc_range) ==
  [site_id |-> site, compound |-> "C", segment_id |-> i,
   start_date |-> p1.date, end_date |-> p2.date,
   start_flow |-> p1.Q, end_flow |-> p2.Q,
   start_conc |-> p1.C, end_conc |-> p2.C,
   flow_diff |-> p2.Q - p1.Q, conc_diff |-> p2.C - p1.C,
   behavior |-> classify_cq_behavior_simple(p2.Q - p1.Q, p2.C - p1.C,
                                            flow_range, conc_range, 1),
   cq_slope_loglog |-> compute_cq_slope(p1.Q, p2.Q, p1.C, p2.C, "loglog"),
   cq_slope_linear |-> compute_cq_slope(p1.Q, p2.Q, p1.C, p2.C, "linear")]

\* for i in range(len(site_data) - 1)
SiteSegments(site, site_data, flow_range, conc_range) ==
  IF Len(site_data) < 2 THEN <<>>
  ELSE [k \in 1..(Len(site_data) - 1) |->
          Segment(site, k - 1, site_data[k], site_data[k + 1],
                  flow_range, conc_range)]

\* for site in sites, from position k of the list on
RECURSIVE SegmentsFrom(_, _, _, _, _)
SegmentsFrom(k, site_list, analysis_data, flow_range, conc_range) ==
  IF k > Len(site_list) THEN <<>>
  ELSE LET site == site_list[k]
           site_data == SelectSeq(analysis_data,
                                  LAMBDA o : o.site_id = site)
       IN SiteSegments(site, site_data, flow_range, conc_range)
          \o SegmentsFrom(k + 1, site_list, analysis_data, flow_range,
                          conc_range)

BuildSegmentsMutAcrossSites(data, site_list) ==
  LET listed == SelectSeq(data, LAMBDA o : InList(o.site_id, site_list))
      dropped == SelectSeq(listed, HasAll)
  IN IF Len(dropped) < 2 THEN <<>>
     ELSE LET analysis_data == SortObs(dropped)
              flow_range == <<ColMin(analysis_data, "Q"),
                              ColMax(analysis_data, "Q")>>
              conc_range == <<ColMin(analysis_data, "C"),
                              ColMax(analysis_data, "C")>>
          IN SiteSegments(site_list[1], analysis_data, flow_range,
                          conc_range)

build_segments(data, site_list) ==
  LET listed == SelectSeq(data, LAMBDA o : InList(o.site_id, site_list))
      dropped == SelectSeq(listed, HasAll)
  IN IF Len(dropped) < 2 THEN <<>>
     ELSE LET analysis_data == SortObs(dropped)
              flow_range == <<ColMin(analysis_data, "Q"),
                              ColMax(analysis_data, "Q")>>
              conc_range == <<ColMin(analysis_data, "C"),
                              ColMax(analysis_data, "C")>>
          IN SegmentsFrom(1, site_list, analysis_data, flow_range,
                          conc_range)

\* ------------------------------------------------------------------------
\* compute_change_percentiles.  Quantiles in hundredths of the unit of the
\* differences.
\* ------------------------------------------------------------------------
\* Series.diff().dropna() of one column of the time-sorted rows of a site
RECURSIVE DiffDropna(_, _, _)
DiffDropna(site_data, col, k) ==
  IF k >= Len(site_data) THEN <<>>
  ELSE LET a == site_data[k][col]
           b == site_data[k + 1][col]
       IN (IF IsNaN(a) \/ IsNaN(b) THEN <<>> ELSE <<b - a>>)
          \o DiffDropna(site_data, col, k + 1)

\* [{'conc_diff': cd, 'flow_diff': fd} for cd, fd in zip(...)]
Zip(conc_diffs, flow_diffs) ==
  [k \in 1..Min(Len(conc_diffs), Len(flow_diffs)) |->
     [conc_diff |-> conc_diffs[k], flow_diff |-> flow_diffs[k]]]

\* for site in sites: changes.extend(...), from position k of the list on
RECURSIVE ChangesFrom(_, _, _)
ChangesFrom(k, site_list, data) ==
  IF k > Len(site_list) THEN <<>>
  ELSE LET site_data ==
             SortObs(SelectSeq(data, LAMBDA o : o.site_id = site_list[k]))
       IN (IF Len(site_data) > 1
           THEN Zip(DiffDropna(site_data, "C", 1),
                    DiffDropna(site_data, "Q", 1))
           ELSE <<>>)
          \o ChangesFrom(k + 1, site_list, data)

RECURSIVE InsertInt(_, _)
InsertInt(x, sorted) ==
  IF sorted = <<>> THEN <<x>>
  ELSE IF x < Head(sorted) THEN <<x>> \o sorted
  ELSE <<Head(sorted)>> \o InsertInt(x, Tail(sorted))

RECURSIVE SortInts(_)
SortInts(xs) ==
  IF xs = <<>> THEN <<>>
  ELSE InsertInt(xs[Len(xs)], SortInts(SubSeq(xs, 1, Len(xs) - 1)))

\* Series.quantile(q) with linear interpolation; q in hundredths, xs not
\* empty
Quantile(xs, q) ==
  LET s == SortInts(xs)
      h == (Len(s) - 1) * q
      lo == (h \div 100) + 1
      frac == h % 100
  IN IF frac = 0 THEN 100 * s[lo]
     ELSE 100 * s[lo] + frac * (s[lo + 1] - s[lo])

Column(df, col) == [k \in DOMAIN df |-> df[k][col]]
AbsColumn(df, col) == [k \in DOMAIN df |-> Abs(df[k][col])]

\* The function raises KeyError when no listed site yields a change
compute_change_percentiles(data, site_list) ==
  LET changes == ChangesFrom(1, site_list, data)
      dC == Column(changes, "conc_diff")
      dQ == Column(changes, "flow_diff")
  IN IF changes = <<>> THEN [error |-> "KeyError"]
     ELSE [dC_p01 |-> Quantile(dC, 1), dC_p05 |-> Quantile(dC, 5),
           dC_p08 |-> Quantile(dC, 8), dC_p10 |-> Quantile(dC, 10),
           dC_p25 |-> Quantile(dC, 25), dC_p50 |-> Quantile(dC, 50),
           dC_p75 |-> Quantile(dC, 75), dC_p90 |-> Quantile(dC, 90),
           dC_p95 |-> Quantile(dC, 95),
           dQ_p05 |-> Quantile(dQ, 5), dQ_p10 |-> Quantile(dQ, 10),
           dQ_p25 |-> Quantile(dQ, 25), dQ_p50 |-> Quantile(dQ, 50),
           dQ_p75 |-> Quantile(dQ, 75), dQ_p90 |-> Quantile(dQ, 90),
           abs_dC_p50 |-> Quantile(AbsColumn(changes, "conc_diff"), 50),
           abs_dC_p75 |-> Quantile(AbsColumn(changes, "conc_diff"), 75),
           abs_dQ_p50 |-> Quantile(AbsColumn(changes, "flow_diff"), 50),
           abs_dQ_p75 |-> Quantile(AbsColumn(changes, "flow_diff"), 75)]

\* ------------------------------------------------------------------------
\* calculate_lawlerlloyd_metrics: the indices at the sampled percentiles.
\* Limb values and indices in hundredths.
\* ------------------------------------------------------------------------
\* Float division of two values that may be NaN; a / 0 is not asked for
Quot(n, d) == IF IsNaN(n) \/ IsNaN(d) THEN NaN ELSE Ratio(n, d)
Minus(a, b) == IF IsNaN(a) \/ IsNaN(b) THEN NaN ELSE a - b

\* Python max(C_rise, C_fall): C_fall only where C_fall > C_rise is true
PyMax(a, b) == IF Gt(b, a) THEN b ELSE a

LawlerMutNaNOnEqual(C_rise, C_fall) ==
  IF Gt(C_rise, C_fall)
  THEN IF C_fall = 0 THEN NaN ELSE Minus(Quot(C_rise, C_fall), 100)
  ELSE IF C_rise = 0 \/ C_rise = C_fall THEN NaN
  ELSE Minus(100, Quot(C_fall, C_rise))

\* METHOD 1: (C_rise / C_fall) - 1, or (-1 / (C_rise / C_fall)) + 1
Lawler(C_rise, C_fall) ==
  IF Gt(C_rise, C_fall)
  THEN IF C_fall = 0 THEN NaN ELSE Minus(Quot(C_rise, C_fall), 100)
  ELSE IF C_rise = 0 THEN NaN
  ELSE Minus(100, Quot(C_fall, C_rise))

\* METHOD 2: (C_rise - C_fall) / C_mid
Lloyd(C_rise, C_fall) ==
  LET C_mid == PyMax(C_rise, C_fall)
  IN IF C_mid = 0 THEN 0 ELSE Quot(Minus(C_rise, C_fall), C_mid)

\* for i in percentiles: one row of HI_data per sampled pair of limb values
HI_data(limbs) ==
  [k \in DOMAIN limbs |->
     [RLi |-> limbs[k].C_rise, FLi |-> limbs[k].C_fall,
      HIL |-> Lawler(limbs[k].C_rise, limbs[k].C_fall),
      HInew |-> Lloyd(limbs[k].C_rise, limbs[k].C_fall)]]

\* ------------------------------------------------------------------------
\* calculate_zuecco_metrics: the index and the class from the differential
\* areas and the series x = Q and y = C, which hold no NaN after the
\* interpolation.
\* ------------------------------------------------------------------------
\* Series.min(), .max() and .sum() skip NaN; min and max of nothing are NaN
NotNaN(s) == {s[k] : k \in {j \in DOMAIN s : ~IsNaN(s[j])}}
SeriesMin(s) ==
  IF NotNaN(s) = {} THEN NaN
  ELSE CHOOSE v \in NotNaN(s) : \A w \in NotNaN(s) : v <= w
SeriesMax(s) ==
  IF NotNaN(s) = {} THEN NaN
  ELSE CHOOSE v \in NotNaN(s) : \A w \in NotNaN(s) : v >= w
RECURSIVE SeriesSum(_)
SeriesSum(s) ==
  IF s = <<>> THEN 0
  ELSE (IF IsNaN(Head(s)) THEN 0 ELSE Head(s)) + SeriesSum(Tail(s))

\* x.index.get_loc(x.idxmax()), as a 1-based position: the first maximum
IdxMax(x) ==
  CHOOSE p \in DOMAIN x :
    /\ \A k \in DOMAIN x : x[k] <= x[p]
    /\ \A k \in 1..(p - 1) : x[k] < x[p]

DetermineClassMutNoDip(min_diff_area, max_diff_area, h_index, change_max_y, change_min_y) ==
  IF Gt(min_diff_area, 0) /\ Gt(max_diff_area, 0) THEN 1
  ELSE IF Lt(min_diff_area, 0) /\ Lt(max_diff_area, 0) THEN 4
  ELSE IF Le(min_diff_area, 0) /\ Gt(max_diff_area, 0) /\ h_index >= 0
  THEN 2
  ELSE IF Lt(min_diff_area, 0) /\ ~IsNaN(max_diff_area)
          /\ max_diff_area >= 0 /\ h_index < 0
  THEN 3
  ELSE 0

determine_class(min_diff_area, max_diff_area, h_index, change_max_y, change_min_y) ==
  IF change_max_y > change_min_y
  THEN IF Gt(min_diff_area, 0) /\ Gt(max_diff_area, 0) THEN 1
       ELSE IF Lt(min_diff_area, 0) /\ Lt(max_diff_area, 0) THEN 4
       ELSE IF Le(min_diff_area, 0) /\ Gt(max_diff_area, 0) /\ h_index >= 0
       THEN 2
       ELSE IF Lt(min_diff_area, 0) /\ ~IsNaN(max_diff_area)
               /\ max_diff_area >= 0 /\ h_index < 0
       THEN 3
       ELSE 0
  ELSE IF Gt(min_diff_area, 0) /\ Gt(max_diff_area, 0) THEN 5
       ELSE IF Lt(min_diff_area, 0) /\ Lt(max_diff_area, 0) THEN 8
       ELSE IF Le(min_diff_area, 0) /\ Gt(max_diff_area, 0) /\ h_index >= 0
       THEN 6
       ELSE IF Lt(min_diff_area, 0) /\ ~IsNaN(max_diff_area)
               /\ max_diff_area >= 0 /\ h_index < 0
       THEN 7
       ELSE 0

find_hysteresis_class(x, y, min_diff_area, max_diff_area, h_index) ==
  LET pos_max_x == IdxMax(x)
      rise == SubSeq(y, 1, pos_max_x)
      change_max_y_rise == Abs(SeriesMax(rise) - y[1])
      change_min_y_rise == Abs(SeriesMin(rise) - y[1])
  IN IF change_max_y_rise # change_min_y_rise
     THEN determine_class(min_diff_area, max_diff_area, h_index,
                          change_max_y_rise, change_min_y_rise)
     ELSE LET fall == SubSeq(y, pos_max_x, Len(y))
              change_max_y_fall == Abs(SeriesMax(fall) - y[1])
              change_min_y_fall == Abs(SeriesMin(fall) - y[1])
          IN IF change_min_y_fall # change_max_y_fall
             THEN determine_class(min_diff_area, max_diff_area, h_index,
                                  change_max_y_fall, change_min_y_fall)
             ELSE 0

ZueccoMetricsMutNegatedIndex(x, y, diff_area) ==
  LET h_index == -SeriesSum(diff_area)
      min_diff_area == SeriesMin(diff_area)
      max_diff_area == SeriesMax(diff_area)
  IN [h_index |-> h_index,
      hyst_class |-> find_hysteresis_class(x, y, min_diff_area,
                                           max_diff_area, h_index),
      min_diff_area |-> min_diff_area, max_diff_area |-> max_diff_area]

\* h_index, hyst_class, min_diff_area and max_diff_area of metric_df
ZueccoMetrics(x, y, diff_area) ==
  LET h_index == SeriesSum(diff_area)
      min_diff_area == SeriesMin(diff_area)
      max_diff_area == SeriesMax(diff_area)
  IN [h_index |-> h_index,
      hyst_class |-> find_hysteresis_class(x, y, min_diff_area,
                                           max_diff_area, h_index),
      min_diff_area |-> min_diff_area, max_diff_area |-> max_diff_area]

\* ------------------------------------------------------------------------
\* calculate_harp_metrics: the areas.  A limb table is a sequence of rows
\* [x, rise, fall] with ascending x = QS in hundredths, as
\* pd.concat([rising, falling], axis=1, sort=True) leaves it: a limb without
\* a point at x holds NaN there.  Limb values in units of 1/120, areas in
\* units of 1/12000.
\* ------------------------------------------------------------------------
\* Series.interpolate(method='linear'): values taken as equally spaced, NaN
\* after the last value filled with it, NaN before the first value kept
InterpolateAt(col, k) ==
  IF ~IsNaN(col[k]) THEN col[k]
  ELSE LET before == {j \in 1..(k - 1) : ~IsNaN(col[j])}
           after == {j \in (k + 1)..Len(col) : ~IsNaN(col[j])}
       IN IF before = {} THEN NaN
          ELSE LET p == CHOOSE j \in before : \A i \in before : i <= j
               IN IF after = {} THEN col[p]
                  ELSE LET q == CHOOSE j \in after : \A i \in after : j <= i
                       IN col[p] + ((col[q] - col[p]) * (k - p)) \div (q - p)

interpolate(table) ==
  LET rise == [k \in DOMAIN table |-> table[k].rise]
      fall == [k \in DOMAIN table |-> table[k].fall]
  IN [k \in DOMAIN table |->
        [x |-> table[k].x, rise |-> InterpolateAt(rise, k),
         fall |-> InterpolateAt(fall, k)]]

\* ((limbs[0] - limbs[1]) * limbs.index.diff()).sum(): the first index
\* difference is NaN, and sum() skips NaN
RECURSIVE AreaFrom(_, _)
AreaFrom(limbs, k) ==
  IF k > Len(limbs) THEN 0
  ELSE LET d == Minus(limbs[k].rise, limbs[k].fall)
       IN (IF IsNaN(d) THEN 0 ELSE d * (limbs[k].x - limbs[k - 1].x))
          + AreaFrom(limbs, k + 1)

LimbArea(limbs) == AreaFrom(limbs, 2)

\* np.sign
Sign(a) == IF a > 0 THEN 1 ELSE IF a < 0 THEN -1 ELSE 0

HarpAreasMutSignedSum(table, found, xQS) ==
  IF found
  THEN LET limbs1 == interpolate(SelectSeq(table, LAMBDA r : r.x <= xQS))
           limbs2 == interpolate(SelectSeq(table, LAMBDA r : r.x > xQS))
           area1 == LimbArea(limbs1)
           area2 == LimbArea(limbs2)
       IN [area |-> area1 + area2, area_lower |-> area1,
           area_upper |-> area2]
  ELSE [area |-> LimbArea(interpolate(table)), area_lower |-> NaN,
        area_upper |-> NaN]

\* area, area_lower and area_upper of metric_df; found is
\* "xQS is not None"
HarpAreas(table, found, xQS) ==
  IF found
  THEN LET limbs1 == interpolate(SelectSeq(table, LAMBDA r : r.x <= xQS))
           limbs2 == interpolate(SelectSeq(table, LAMBDA r : r.x > xQS))
           area1 == LimbArea(limbs1)
           area2 == LimbArea(limbs2)
           total_area == Abs(area1) + Abs(area2)
           area_sign == IF Abs(area1) > Abs(area2) THEN Sign(area1)
                        ELSE Sign(area2)
       IN [area |-> area_sign * total_area, area_lower |-> area1,
           area_upper |-> area2]
  ELSE [area |-> LimbArea(interpolate(table)), area_lower |-> NaN,
        area_upper |-> NaN]

\* ------------------------------------------------------------------------
\* compute_cvc_cvq_windows.  CVq, CVc and their ratio in hundredths.  The
\* regression slope of a window (plotly's OLS trendline, NaN when it fails)
\* is not part of the rows below.
\* ------------------------------------------------------------------------
RECURSIVE SumOf(_)
SumOf(xs) == IF xs = <<>> THEN 0 ELSE Head(xs) + SumOf(Tail(xs))

RECURSIVE SumSq(_)
SumSq(xs) == IF xs = <<>> THEN 0 ELSE Head(xs) * Head(xs) + SumSq(Tail(xs))

\* The whole part of a square root
ISqrt(n) == CHOOSE r \in 0..400 : r * r <= n /\ n < (r + 1) * (r + 1)

\* sd / mu if mu != 0 else nan, with Series.mean() and Series.std(ddof=1),
\* which skip NaN: the mean of nothing and the deviation of fewer than two
\* values are NaN
CV(column) ==
  LET v == SelectSeq(column, LAMBDA x : ~IsNaN(x))
      m == Len(v)
      S == SumOf(v)
  IN IF m = 0 THEN NaN
     ELSE IF S = 0 THEN NaN
     ELSE IF m = 1 THEN NaN
     ELSE Sign(S) * ISqrt((10000 * m * (m * SumSq(v) - S * S))
                          \div ((m - 1) * S * S))

\* CVc / CVq if (CVq not in [0, np.nan]) else np.nan
CvRatio(CVc, CVq) ==
  IF CVq = 0 \/ IsNaN(CVq) THEN NaN ELSE Quot(CVc, CVq)

\* The row of the window that ends at the 0-based position i of group g
WindowRow(site, g, i, window) ==
  LET block == SubSeq(g, i - window + 2, i + 1)
      CVq == CV([k \in DOMAIN block |-> block[k].Q])
      CVc == CV([k \in DOMAIN block |-> block[k].C])
  IN [site_id |-> site, compound |-> "C", window_id |-> i - window + 1,
      start_date |-> block[1].date, end_date |-> block[Len(block)].date,
      n_samples |-> Len(block), CVq |-> CVq, CVc |-> CVc,
      CVc_CVq |-> CvRatio(CVc, CVq)]

\* for i in range(window - 1, len(g))
GroupRows(site, g, window) ==
  IF Len(g) < window THEN <<>>
  ELSE [k \in 1..(Len(g) - window + 1) |->
          WindowRow(site, g, k + window - 2, window)]

\* for site, g in df_sorted.groupby("site_id"): the groups in the order of
\* their keys
RECURSIVE GroupsFrom(_, _, _)
GroupsFrom(df_sorted, window, rank) ==
  IF rank > 3 THEN <<>>
  ELSE LET g == SelectSeq(df_sorted, LAMBDA o : SiteRank(o.site_id) = rank)
       IN (IF g = <<>> THEN <<>> ELSE GroupRows(g[1].site_id, g, window))
          \o GroupsFrom(df_sorted, window, rank + 1)

CvcCvqWindowsMutNoGroups(df, window) ==
  LET df_sorted == SortObs(df)
  IN IF df_sorted = <<>> THEN <<>>
     ELSE GroupRows(df_sorted[1].site_id, df_sorted, window)

compute_cvc_cvq_windows(df, window) ==
  LET df_sorted == SortObs(df)
  IN GroupsFrom(df_sorted, window, 1)

\* ------------------------------------------------------------------------
\* The window for the hysteresis calculation of one segment ([4/6]).  Times
\* are in half days, headex and tailex in hundredths.
\* ------------------------------------------------------------------------
HalfDaysPerDay == 2

\* int(x) of a float x = num / den, den > 0: truncation towards zero
PyInt(num, den) == IF num >= 0 THEN num \div den ELSE -((-num) \div den)

\* pd.Timedelta(end_date - start_date).days: the whole days of the duration
t_extent(row) == (row.end_date - row.start_date) \div HalfDaysPerDay

SegmentStartMutRoundUp(row, headex) ==
  row.start_date - HalfDaysPerDay * ((t_extent(row) * headex + 99) \div 100)

\* start_date - pd.Timedelta(days=int(t_extent * headex))
segment_start(row, headex) ==
  row.start_date - HalfDaysPerDay * PyInt(t_extent(row) * headex, 100)

\* end_date + pd.Timedelta(days=int(t_extent * tailex))
segment_end(row, tailex) ==
  row.end_date + HalfDaysPerDay * PyInt(t_extent(row) * tailex, 100)

\* ------------------------------------------------------------------------
\* [3/6] Add WAI.  `data` is the input frame in the order it was passed, a
\* row of merged_df is shown with its keys and its WAI only; a frame without
\* the WAI column holds Missing there.
\* ------------------------------------------------------------------------
\* data.set_index('date')[water_avail_col].to_dict(): of the rows with the
\* same date the last one gives the value
wai_map(data, date) ==
  LET rows == {k \in DOMAIN data : data[k].date = date}
  IN IF rows = {} THEN Missing
     ELSE data[CHOOSE k \in rows : \A j \in rows : j <= k].WAI

\* Series.map(dict): a key the dict does not hold gives NaN
MapGet(v) == IF v = Missing THEN NaN ELSE v

\* if water_avail_col and water_avail_col in data.columns: ...
AddWAI(merged, data, water_avail_col) ==
  IF water_avail_col
  THEN [k \in DOMAIN merged |-> [merged[k] EXCEPT !.WAI = MapGet(wai_map(data, merged[k].end_date))]]
  ELSE merged

\* The rows of merged_df for the segments of `data`, before the WAI is added
MergedKeys(data, site_list) ==
  LET segments_df == build_segments(data, site_list)
  IN [k \in DOMAIN segments_df |->
        [site_id |-> segments_df[k].site_id,
         start_date |-> segments_df[k].start_date,
         end_date |-> segments_df[k].end_date, WAI |-> Missing]]

\* ------------------------------------------------------------------------
\* classify_geochemical_phase: the run over the segments of several sites
\* ------------------------------------------------------------------------
\* The `sites` argument, in the order the caller lists them
sites == <<"A", "B">>
Sites == {sites[k] : k \in DOMAIN sites}

\* Segments as _build_segments and the merge with the CVc/CVq windows deliver
\* them: the change between two consecutive samples of one site.
SegFlush ==
  [flow_diff |-> 15, conc_diff |-> -40, end_flow |-> 25, end_conc |-> 5,
   behavior |-> "dispersion", CVc_CVq |-> 120, cq_slope_loglog |-> -100]
SegLoad ==
  [flow_diff |-> -5, conc_diff |-> 25, end_flow |-> 40, end_conc |-> 40,
   behavior |-> "accumulation", CVc_CVq |-> NaN, cq_slope_loglog |-> -300]
SegKinds == {SegFlush, SegLoad}

\* Days between two samples of a site
SampleStep == 7

\* Row i of a site in merged_df.  Columns that later steps add are not there
\* yet; WAI is absent: the data have no water availability column.
MergedRow(site, i, seg) ==
  [site_id |-> site, start_date |-> SampleStep * (i - 1),
   end_date |-> SampleStep * i,
   flow_diff |-> seg.flow_diff, conc_diff |-> seg.conc_diff,
   end_flow |-> seg.end_flow, end_conc |-> seg.end_conc,
   behavior |-> seg.behavior, CVc_CVq |-> seg.CVc_CVq,
   cq_slope_loglog |-> seg.cq_slope_loglog, WAI |-> Missing,
   Q_position |-> "missing", C_position |-> "missing",
   highres_flow_phase |-> "missing", highres_days_since_peak |-> Missing,
   highres_q_level |-> "missing",
   window_HI_zuecco |-> Missing, window_HI_lloyd |-> Missing,
   window_HI_harp |-> Missing,
   prev_behavior |-> "missing", prev_CVc_CVq |-> Missing,
   prev_Q_position |-> "missing", prev_C_position |-> "missing",
   prev_conc_diff |-> Missing, prev_flow_diff |-> Missing,
   HI_transition |-> "missing",
   prev2_conc_diff |-> Missing, prev2_C_position |-> "missing",
   next_C_position |-> "missing", C_trajectory |-> "missing",
   geochemical_phase |-> "missing", phase_confidence |-> Missing,
   rules_triggered |-> "missing"]

\* The columns that hold numbers; all others hold tags
NumCols ==
  {"start_date", "end_date", "flow_diff", "conc_diff", "end_flow",
   "end_conc", "CVc_CVq", "cq_slope_loglog", "WAI",
   "highres_days_since_peak", "window_HI_zuecco", "window_HI_lloyd",
   "window_HI_harp", "prev_CVc_CVq", "prev_conc_diff", "prev_flow_diff",
   "prev2_conc_diff", "phase_confidence"}

\* merged_df: the segments site by site in the order of `order`, each site's
\* segments by date (segs[site] is the site's list of segments).
RECURSIVE Merged(_, _)
Merged(order, segs) ==
  IF order = <<>> THEN <<>>
  ELSE [i \in 1..Len(segs[Head(order)]) |->
          MergedRow(Head(order), i, segs[Head(order)][i])]
       \o Merged(Tail(order), segs)

\* 'low' if x < p25 else ('high' if x > p75 else 'medium')
Position(x, p25, p75) ==
  IF Lt(x, p25) THEN "low" ELSE IF Gt(x, p75) THEN "high" ELSE "medium"

\* merged_df['Q_position'] = ..., merged_df['C_position'] = ...
TagPositionsOf(df, p) ==
  [k \in DOMAIN df |->
     [df[k] EXCEPT
        !.Q_position = Position(df[k].end_flow, p.Q_p25, p.Q_p75),
        !.C_position = Position(df[k].end_conc, p.C_p25, p.C_p75)]]

\* df[df['site_id'] == site].sort_values('end_date').reset_index(drop=True)
RECURSIVE Insert(_, _)
Insert(r, sorted) ==
  IF sorted = <<>> THEN <<r>>
  ELSE IF r.end_date < Head(sorted).end_date THEN <<r>> \o sorted
  ELSE <<Head(sorted)>> \o Insert(r, Tail(sorted))
RECURSIVE sort_values(_)
sort_values(df) ==
  IF df = <<>> THEN <<>>
  ELSE Insert(df[Len(df)], sort_values(SubSeq(df, 1, Len(df) - 1)))
OfSite(r, site) == r.site_id = site
SiteDf(df, site) ==
  sort_values(SelectSeq(df, LAMBDA r : OfSite(r, site)))

\* ------------------------------------------------------------------------
\* [4/6] with high-resolution data
\* ------------------------------------------------------------------------
\* What the window-scale analysis of one segment comes to: the call raises,
\* analyze_segment_flow_dynamics returns None (an empty or all-missing
\* window, or fewer than 2 complete rows), or it returns its dict.  The dict holds the window_HI_*
\* keys only if the window has 5 points or more (has_hi).
DynRaise ==
  [kind |-> "raise", flow_phase |-> "", days_since_peak |-> NaN,
   end_q |-> NaN, has_hi |-> FALSE, window_HI_zuecco |-> NaN,
   window_HI_lloyd |-> NaN, window_HI_harp |-> NaN]
DynNone == [DynRaise EXCEPT !.kind = "none"]
DynPeak ==
  [kind |-> "dict", flow_phase |-> "at_peak", days_since_peak |-> 0,
   end_q |-> 40, has_hi |-> TRUE, window_HI_zuecco |-> 20,
   window_HI_lloyd |-> 15, window_HI_harp |-> 10]
DynFall ==
  [kind |-> "dict", flow_phase |-> "post_peak", days_since_peak |-> 10,
   end_q |-> 20, has_hi |-> TRUE, window_HI_zuecco |-> -20,
   window_HI_lloyd |-> -15, window_HI_harp |-> -10]
DynShort ==
  [kind |-> "dict", flow_phase |-> "low", days_since_peak |-> 3,
   end_q |-> 5, has_hi |-> FALSE, window_HI_zuecco |-> NaN,
   window_HI_lloyd |-> NaN, window_HI_harp |-> NaN]
DynOutcomes == {DynRaise, DynNone, DynPeak, DynFall, DynShort}

\* `if flow_dynamics:` a dict is truthy, None and False are not
Truthy(fd) == fd.kind = "dict"

\* q_level of the window: end_q against the Q quartiles of the table
QLevel(end_q, p) ==
  IF Gt(end_q, p.Q_p75) THEN "high"
  ELSE IF Lt(end_q, p.Q_p25) THEN "low" ELSE "medium"

\* ------------------------------------------------------------------------
\* calculate_all_hysteresis_metrics and analyze_segment_flow_dynamics.  A
\* window is a sequence of rows [t, Q, C] in time order, t in days.  A dict
\* of metrics is a set of <<key, value>> pairs.  What the three engines
\* make of a window of three rows or more is given as `engine`: they raise,
\* or they return an area, an h_index and a mean_HInew.  The fitted trends
\* q_trend and q_acceleration are not part of the result below.
\* ------------------------------------------------------------------------
\* d.get(key, default)
DictGet(d, key, default) ==
  IF \E kv \in d : kv[1] = key
  THEN (CHOOSE kv \in d : kv[1] = key)[2]
  ELSE default

\* 'lloyd_direction' of the classifications
Direction(mean_hinew) ==
  IF IsNaN(mean_hinew) THEN "unknown"
  ELSE IF mean_hinew > 10 THEN "clockwise"
  ELSE IF mean_hinew < -10 THEN "counter-clockwise"
  ELSE "weak"

HysteresisMetricsMutNoMinimum(df, engine) ==
  IF engine.raises
  THEN [harp_metrics |-> {}, zuecco_metrics |-> {}, lloyd_metrics |-> {},
        classifications |-> {}, error |-> "Calculation failed"]
  ELSE [harp_metrics |-> {<<"area", engine.area>>},
        zuecco_metrics |-> {<<"h_index", engine.h_index>>},
        lloyd_metrics |-> {<<"mean_HInew", engine.mean_HInew>>},
        classifications |->
          {<<"lloyd_direction", Direction(engine.mean_HInew)>>},
        error |-> ""]

calculate_all_hysteresis_metrics(df, engine) ==
  IF Len(df) < 3
  THEN [harp_metrics |-> {}, zuecco_metrics |-> {}, lloyd_metrics |-> {},
        classifications |-> {},
        error |-> "Insufficient data points (need >= 3)"]
  ELSE IF engine.raises
  THEN [harp_metrics |-> {}, zuecco_metrics |-> {}, lloyd_metrics |-> {},
        classifications |-> {}, error |-> "Calculation failed"]
  ELSE [harp_metrics |-> {<<"area", engine.area>>},
        zuecco_metrics |-> {<<"h_index", engine.h_index>>},
        lloyd_metrics |-> {<<"mean_HInew", engine.mean_HInew>>},
        classifications |->
          {<<"lloyd_direction", Direction(engine.mean_HInew)>>},
        error |-> ""]

\* The flow phase from the place of the peak and the ends of the window
FlowPhaseOf(since_peak, to_peak, segment_duration, start_q, end_q, level, p) ==
  LET peak_position ==
        IF segment_duration > 0
        THEN IF 100 * to_peak < 33 * segment_duration THEN "early"
             ELSE IF 100 * to_peak > 67 * segment_duration THEN "late"
             ELSE "middle"
        ELSE "middle"
  IN IF since_peak < 1 THEN "at_peak"
     ELSE IF 10 * since_peak < 3 * segment_duration
     THEN IF end_q > p.Q_p50 THEN "early_decline" ELSE "late_decline"
     ELSE IF 10 * to_peak < 3 * segment_duration THEN "post_peak"
     ELSE IF peak_position = "late" /\ end_q > start_q THEN "rising"
     ELSE IF level = "low" THEN "low"
     ELSE IF 10 * end_q > 11 * start_q THEN "rising"
     ELSE IF 10 * end_q < 9 * start_q
     THEN IF level = "high" THEN "early_decline" ELSE "late_decline"
     ELSE "stable"

\* The result, in the shape of the outcomes above: kind "none" for None,
\* has_hi for the presence of the window_HI_* keys
analyze_segment_flow_dynamics(window, p, engine) ==
  IF Len(window) = 0 \/ \A k \in DOMAIN window : IsNaN(window[k].Q)
  THEN DynNone
  ELSE LET segment_data ==
             SelectSeq(window, LAMBDA r : ~IsNaN(r.Q) /\ ~IsNaN(r.C))
           n == Len(segment_data)
       IN IF n < 2 THEN DynNone
          ELSE LET peak_idx ==
                     IdxMax([k \in 1..n |-> segment_data[k].Q])
                   peak_time == segment_data[peak_idx].t
                   segment_duration == segment_data[n].t - segment_data[1].t
                   to_peak == peak_time - segment_data[1].t
                   since_peak == segment_data[n].t - peak_time
                   end_q == segment_data[n].Q
                   start_q == segment_data[1].Q
                   window_hyst ==
                     calculate_all_hysteresis_metrics(segment_data, engine)
               IN [kind |-> "dict",
                   flow_phase |->
                     FlowPhaseOf(since_peak, to_peak,
                                 segment_duration, start_q, end_q,
                                 QLevel(end_q, p), p),
                   days_since_peak |-> since_peak,
                   end_q |-> end_q,
                   has_hi |-> n >= 5,
                   window_HI_zuecco |->
                     IF n >= 5
                     THEN DictGet(window_hyst.zuecco_metrics, "h_index", NaN)
                     ELSE NaN,
                   window_HI_lloyd |->
                     IF n >= 5
                     THEN DictGet(window_hyst.lloyd_metrics, "mean_HInew",
                                  NaN)
                     ELSE NaN,
                   window_HI_harp |->
                     IF n >= 5
                     THEN DictGet(window_hyst.harp_metrics, "area", NaN)
                     ELSE NaN]

\* flow_dynamics.get('window_HI_...', np.nan)
DynHI(fd, key) == IF fd.has_hi THEN fd[key] ELSE NaN

\* row[f'highres_{key}'] = val for the dict, the two defaults otherwise
WithDynamics(row, fd, p) ==
  IF Truthy(fd)
  THEN [row EXCEPT !.highres_flow_phase = fd.flow_phase,
                   !.highres_days_since_peak = fd.days_since_peak,
                   !.highres_q_level = QLevel(fd.end_q, p)]
  ELSE [row EXCEPT !.highres_flow_phase = "unknown",
                   !.highres_days_since_peak = NaN]

\* The transition of the window Zuecco index from prev_hi to current_hi
Transition(prev_hi, current_hi) ==
  IF ~IsNaN(prev_hi) /\ ~IsNaN(current_hi)
  THEN IF prev_hi > 1 /\ current_hi < -1 THEN "pos_to_neg"
       ELSE IF prev_hi < -1 /\ current_hi > 1 THEN "neg_to_pos"
       ELSE "stable"
  ELSE "stable"

\* HI_transition of segment i > 1: prev is row i-1 of site_df, the frame the
\* loop reads from, which the loop does not write to.
HITransition(prev, fd) ==
  IF Truthy(fd)
  THEN Transition(Get(prev.window_HI_zuecco, NaN),
                  DynHI(fd, "window_HI_zuecco"))
  ELSE "stable"

\* row['window_HI_zuecco'] = ... and the two others, if flow_dynamics
WithWindowHI(row, fd) ==
  IF Truthy(fd)
  THEN [row EXCEPT !.window_HI_zuecco = DynHI(fd, "window_HI_zuecco"),
                   !.window_HI_lloyd = DynHI(fd, "window_HI_lloyd"),
                   !.window_HI_harp = DynHI(fd, "window_HI_harp")]
  ELSE row

\* Extended temporal context: the segment before
WithPrev(row, site_df, i, fd) ==
  IF i > 1
  THEN LET prev == site_df[i - 1]
       IN WithWindowHI(
            [row EXCEPT !.prev_behavior = prev.behavior,
                        !.prev_CVc_CVq = Get(prev.CVc_CVq, NaN),
                        !.prev_Q_position = prev.Q_position,
                        !.prev_C_position = prev.C_position,
                        !.prev_conc_diff = prev.conc_diff,
                        !.prev_flow_diff = prev.flow_diff,
                        !.HI_transition = HITransition(prev, fd)], fd)
  ELSE WithWindowHI(
         [row EXCEPT !.prev_behavior = "none", !.prev_CVc_CVq = NaN,
                     !.prev_Q_position = "none",
                     !.prev_C_position = "none",
                     !.prev_conc_diff = 0, !.prev_flow_diff = 0,
                     !.HI_transition = "first"], fd)

WithPrev2MutOneBack(row, site_df, i) ==
  IF i > 1
  THEN [row EXCEPT !.prev2_conc_diff = site_df[i - 1].conc_diff,
                   !.prev2_C_position = site_df[i - 1].C_position]
  ELSE [row EXCEPT !.prev2_conc_diff = 0, !.prev2_C_position = "none"]

\* Two segments back
WithPrev2(row, site_df, i) ==
  IF i > 2
  THEN [row EXCEPT !.prev2_conc_diff = site_df[i - 2].conc_diff,
                   !.prev2_C_position = site_df[i - 2].C_position]
  ELSE [row EXCEPT !.prev2_conc_diff = 0, !.prev2_C_position = "none"]

\* Next segment
WithNext(row, site_df, i) ==
  IF i < Len(site_df)
  THEN [row EXCEPT !.next_C_position = site_df[i + 1].C_position]
  ELSE [row EXCEPT !.next_C_position = "none"]

\* C trajectory, on the percentile thresholds
CTrajectoryMutGradualFirst(row, p) ==
  IF Lt(row.conc_diff, p.dC_p25) THEN "gradual_decline"
  ELSE IF Lt(row.conc_diff, p.dC_p08)
  THEN IF GetTag(row.prev_C_position, "none") = "high"
       THEN "steep_decline_from_high" ELSE "steep_decline"
  ELSE IF Gt(row.conc_diff, p.dC_p90)
  THEN IF row.C_position = "high" THEN "rising_to_max"
       ELSE "large_increase"
  ELSE IF Gt(row.conc_diff, p.dC_p75) THEN "moderate_increase"
  ELSE IF row.C_position = "high" /\ Lt(Abs(row.conc_diff), p.abs_dC_p50)
  THEN "at_maximum"
  ELSE "stable"

\* C trajectory - using percentile-based thresholds
CTrajectory(row, p) ==
  IF Lt(row.conc_diff, p.dC_p08)
  THEN IF GetTag(row.prev_C_position, "none") = "high"
       THEN "steep_decline_from_high" ELSE "steep_decline"
  ELSE IF Lt(row.conc_diff, p.dC_p25) THEN "gradual_decline"
  ELSE IF Gt(row.conc_diff, p.dC_p90)
  THEN IF row.C_position = "high" THEN "rising_to_max"
       ELSE "large_increase"
  ELSE IF Gt(row.conc_diff, p.dC_p75) THEN "moderate_increase"
  ELSE IF row.C_position = "high" /\ Lt(Abs(row.conc_diff), p.abs_dC_p50)
  THEN "at_maximum"
  ELSE "stable"
WithTrajectory(row, p) == [row EXCEPT !.C_trajectory = CTrajectory(row, p)]

\* One pass of the inner loop: the row appended to `results` for segment i
HighresRow(site_df, i, fd, p) ==
  LET r1 == WithDynamics(site_df[i], fd, p)
      r2 == WithPrev(r1, site_df, i, fd)
      r3 == WithPrev2(r2, site_df, i)
      r4 == WithNext(r3, site_df, i)
  IN WithTrajectory(r4, p)

\* The inner loop over one site: dyn is the list of the window outcomes of
\* the site's segments
HighresSite(df, site, dyn, p) ==
  LET site_df == SiteDf(df, site)
  IN [i \in 1..Len(site_df) |-> HighresRow(site_df, i, dyn[i], p)]

\* pd.DataFrame(results): the frame has every key that some row holds, and a
\* row that does not hold a key has NaN there.  The rows of `results` differ
\* in the keys that only a truthy flow_dynamics sets; every other key is
\* held by all rows or by none.
FillNum(rows, k, c) ==
  IF rows[k][c] = Missing /\ \E j \in DOMAIN rows : rows[j][c] # Missing
  THEN NaN ELSE rows[k][c]
FillTag(rows, k, c) ==
  IF rows[k][c] = "missing" /\ \E j \in DOMAIN rows : rows[j][c] # "missing"
  THEN "nan" ELSE rows[k][c]
DataFrame(rows) ==
  [k \in DOMAIN rows |->
     [rows[k] EXCEPT
        !.highres_q_level = FillTag(rows, k, "highres_q_level"),
        !.window_HI_zuecco = FillNum(rows, k, "window_HI_zuecco"),
        !.window_HI_lloyd = FillNum(rows, k, "window_HI_lloyd"),
        !.window_HI_harp = FillNum(rows, k, "window_HI_harp")]]

\* ------------------------------------------------------------------------
\* [4/6] without high-resolution data
\* ------------------------------------------------------------------------
\* temporal_df.loc[idx, col] = val: the cell of the row labelled idx; a
\* column that is new holds NaN in every other row
Loc(df, idx, col, val) ==
  [k \in DOMAIN df |->
     IF k = idx THEN [df[k] EXCEPT ![col] = val]
     ELSE IF col \in NumCols
     THEN [df[k] EXCEPT ![col] = IF @ = Missing THEN NaN ELSE @]
     ELSE [df[k] EXCEPT ![col] = IF @ = "missing" THEN "nan" ELSE @]]

\* site_df.index[i]: after reset_index(drop=True) the label of row i of
\* site_df is its position in site_df (rows are counted from 1 here, so the
\* label of the source's row 0 is 1)
SiteIndex(site_df, i) == i

\* One pass of the inner loop for row i of site_df
PlainRow(df, site_df, i) ==
  LET idx == SiteIndex(site_df, i)
      d1 == IF i > 1
            THEN LET prev_idx == SiteIndex(site_df, i - 1)
                 IN Loc(Loc(df, idx, "prev_conc_diff",
                            df[prev_idx].conc_diff),
                        idx, "prev_C_position", df[prev_idx].C_position)
            ELSE Loc(Loc(df, idx, "prev_conc_diff", 0),
                     idx, "prev_C_position", "none")
      d2 == IF i > 2
            THEN Loc(d1, idx, "prev2_conc_diff",
                     d1[SiteIndex(site_df, i - 2)].conc_diff)
            ELSE Loc(d1, idx, "prev2_conc_diff", 0)
  IN Loc(Loc(Loc(d2, idx, "highres_flow_phase", "unknown"),
             idx, "highres_days_since_peak", NaN),
         idx, "HI_transition", "stable")

\* The inner loop over one site, rows i..Len(site_df)
RECURSIVE PlainLoop(_, _, _)
PlainLoop(df, site_df, i) ==
  IF i > Len(site_df) THEN df
  ELSE PlainLoop(PlainRow(df, site_df, i), site_df, i + 1)
PlainSite(df, site) == PlainLoop(df, SiteDf(df, site), 1)

\* The sites whose rows the pass over `site` writes to
PlainWrites(df, site) ==
  {df[SiteIndex(SiteDf(df, site), i)].site_id :
     i \in 1..Len(SiteDf(df, site))}

\* ------------------------------------------------------------------------
\* [5/6] classification of every row of temporal_df
\* ------------------------------------------------------------------------
\* '|'.join(rules)
RECURSIVE Join(_, _)
Join(rules, sep) ==
  IF rules = <<>> THEN ""
  ELSE IF Len(rules) = 1 THEN rules[1]
  ELSE rules[1] \o sep \o Join(Tail(rules), sep)

ClassifyRowsMutTouchesRow(df, p) ==
  [k \in DOMAIN df |->
     LET out == classify_segment_phase(df[k], p)
     IN [df[k] EXCEPT !.geochemical_phase = out.phase,
                      !.phase_confidence = out.confidence,
                      !.rules_triggered = Join(out.rules, "|"),
                      !.prev_conc_diff = 0]]

\* temporal_df['geochemical_phase'] = phases, ... after the loop over the rows
ClassifyRows(df, p) ==
  [k \in DOMAIN df |->
     LET out == classify_segment_phase(df[k], p)
     IN [df[k] EXCEPT !.geochemical_phase = out.phase,
                      !.phase_confidence = out.confidence,
                      !.rules_triggered = Join(out.rules, "|")]]

\* ------------------------------------------------------------------------
\* The whole run as a function of its arguments
\* ------------------------------------------------------------------------
RECURSIVE HighresLoop(_, _, _, _)
HighresLoop(df, order, dyn, p) ==
  IF order = <<>> THEN <<>>
  ELSE HighresSite(df, Head(order), dyn[Head(order)], p)
       \o HighresLoop(df, Tail(order), dyn, p)
RECURSIVE PlainSites(_, _)
PlainSites(df, order) ==
  IF order = <<>> THEN df
  ELSE PlainSites(PlainSite(df, Head(order)), Tail(order))

Run(order, segs, highres, dyn, p) ==
  LET merged == TagPositionsOf(Merged(order, segs), p)
      temporal == IF highres
                  THEN DataFrame(HighresLoop(merged, order, dyn, p))
                  ELSE PlainSites(merged, order)
  IN ClassifyRows(temporal, p)

\* ------------------------------------------------------------------------
\* State
\* ------------------------------------------------------------------------
VARIABLES
  cpc,    \* classify_segment_phase: "call" before, "done" after the call
  crow,   \* its argument row
  cperc,  \* its argument percentiles
  cout    \* what it returned

VARIABLES
  pc,            \* the step classify_geochemical_phase is at
  site_i,        \* position in `sites` of the site the loop of [4/6] is at
  segs,          \* data: the segments of each site, by date
  data_table,    \* data: the quantiles of its samples and of their changes
  use_highres,   \* the argument use_highres
  flow_highres,  \* TRUE if the argument flow_highres is not None
  dyn,           \* what the window analysis came to, for each segment
                 \* that the loop of [4/6] has been at
  percentiles,   \* the dict `percentiles`
  merged_df,
  results,
  temporal_df,
  written        \* <<s, t>>: the pass over site s wrote to a row of site t

VARIABLES
  lpc,    \* a function of the library called on its own: "call", then "done"
  larg,   \* its arguments
  lout    \* what it returned

cvars == <<cpc, crow, cperc, cout>>
rvars == <<pc, site_i, segs, data_table, use_highres, flow_highres, dyn,
           percentiles, merged_df, results, temporal_df, written>>
lvars == <<lpc, larg, lout>>
vars == <<cvars, rvars, lvars>>

NoResult == Pass(<<>>)
NoSegs == [s \in Sites |-> <<>>]

\* No run of classify_geochemical_phase is going on
RunOff ==
  /\ pc = "off" /\ site_i = 0 /\ segs = NoSegs /\ data_table = TableMixed
  /\ use_highres = FALSE /\ flow_highres = FALSE /\ dyn = NoSegs
  /\ percentiles = <<>> /\ merged_df = <<>> /\ results = <<>>
  /\ temporal_df = <<>> /\ written = {}

\* No function of the library is called on its own
LibOff == lpc = "off" /\ larg = <<>> /\ lout = <<>>

\* No separate call of classify_segment_phase is going on
ClassifyOff ==
  /\ cpc = "off" /\ crow = RowPlain /\ cperc = TableMixed /\ cout = NoResult

\* ------------------------------------------------------------------------
\* classify_segment_phase called on its own
\* ------------------------------------------------------------------------
\* crow is `row` with at most k of the columns FieldSeq[lo..] replaced
RECURSIVE IsVaried(_, _, _)
IsVaried(row, k, lo) ==
  \/ crow = row
  \/ /\ k > 0
     /\ \E i \in lo..Len(FieldSeq) : \E v \in FieldValues[FieldSeq[i]] :
          IsVaried([row EXCEPT ![FieldSeq[i]] = v], k - 1, i + 1)

ClassifyInit ==
  /\ cpc = "call"
  /\ \E base \in BaseRows : IsVaried(base, MaxVary, 1)
  /\ cperc \in Tables
  /\ cout = NoResult
  /\ RunOff /\ LibOff

\* One call of classify_segment_phase(row, percentiles)
ClassifyCall ==
  /\ cpc = "call"
  /\ cout' = classify_segment_phase(crow, cperc)
  /\ cpc' = "done"
  /\ UNCHANGED <<crow, cperc>>
  /\ UNCHANGED rvars /\ UNCHANGED lvars

ClassifyNext == ClassifyCall

SpecClassify == ClassifyInit /\ [][ClassifyNext]_vars

\* ------------------------------------------------------------------------
\* Calls of classify_segment_phase that reach the levels below Loading: the
\* rows that are neither flushing nor loading unless varied
\* ------------------------------------------------------------------------
LowerRows == {RowPlain, RowDynamic, RowPostFlush, RowRecession}

LowerInit ==
  /\ cpc = "call"
  /\ \E base \in LowerRows : IsVaried(base, MaxVary, 1)
  /\ cperc \in Tables
  /\ cout = NoResult
  /\ RunOff /\ LibOff

LowerNext == ClassifyCall

SpecLower == LowerInit /\ [][LowerNext]_vars

\* ------------------------------------------------------------------------
\* One run of classify_geochemical_phase
\* ------------------------------------------------------------------------
\* The most segments the sites have together
MaxRows == 3

SegLists(n) == UNION {[1..k -> SegKinds] : k \in 0..n}
DynLists(n) == [1..n -> DynOutcomes]

QuantileKeys == {"Q_p25", "Q_p50", "Q_p75", "C_p25", "C_p50", "C_p75"}

UpdateMutLost(d, e) == d

\* dict.update
Update(d, e) ==
  [k \in DOMAIN d \cup DOMAIN e |-> IF k \in DOMAIN e THEN e[k] ELSE d[k]]

\* The state after [1/6]..[3/6]: merged_df is built, `percentiles` is not
Init ==
  /\ pc = "percentiles" /\ site_i = 1
  /\ \E a \in SegLists(MaxRows) : \E b \in SegLists(MaxRows - Len(a)) :
       /\ Len(a) + Len(b) >= 1
       /\ segs = [s \in Sites |-> IF s = sites[1] THEN a ELSE b]
  /\ data_table \in Tables
  /\ use_highres \in BOOLEAN /\ flow_highres \in BOOLEAN
  /\ dyn = NoSegs
  /\ percentiles = <<>>
  /\ merged_df = Merged(sites, segs)
  /\ results = <<>> /\ temporal_df = <<>> /\ written = {}
  /\ ClassifyOff /\ LibOff

Inputs == <<segs, data_table, use_highres, flow_highres>>

\* percentiles = {'Q_p25': ..., ..., 'C_p75': ...}
BuildPercentiles ==
  /\ pc = "percentiles"
  /\ percentiles' = [k \in QuantileKeys |-> data_table[k]]
  /\ pc' = "update"
  /\ UNCHANGED <<site_i, merged_df, results, temporal_df, written>>
  /\ UNCHANGED Inputs /\ UNCHANGED dyn /\ UNCHANGED cvars /\ UNCHANGED lvars

\* percentiles.update(compute_change_percentiles(data, sites, ccol, qcol))
UpdatePercentiles ==
  /\ pc = "update"
  /\ percentiles' =
       Update(percentiles,
              [k \in DOMAIN data_table \ QuantileKeys |-> data_table[k]])
  /\ pc' = "positions"
  /\ UNCHANGED <<site_i, merged_df, results, temporal_df, written>>
  /\ UNCHANGED Inputs /\ UNCHANGED dyn /\ UNCHANGED cvars /\ UNCHANGED lvars

\* merged_df['Q_position'] = ...; merged_df['C_position'] = ...
TagPositions ==
  /\ pc = "positions"
  /\ merged_df' = TagPositionsOf(merged_df, percentiles)
  /\ pc' = IF use_highres /\ flow_highres THEN "highres" ELSE "copy"
  /\ UNCHANGED <<site_i, percentiles, results, temporal_df, written>>
  /\ UNCHANGED Inputs /\ UNCHANGED dyn /\ UNCHANGED cvars /\ UNCHANGED lvars

\* One pass of `for site in sites:` with high-resolution data; what the
\* window analysis of a segment comes to depends on the samples of
\* flow_highres in the segment's window.  The last pass is followed by
\* temporal_df = pd.DataFrame(results).
HighresStep ==
  /\ pc = "highres" /\ site_i <= Len(sites)
  /\ \E d \in DynLists(Len(segs[sites[site_i]])) :
       /\ dyn' = [dyn EXCEPT ![sites[site_i]] = d]
       /\ results' = results \o HighresSite(merged_df, sites[site_i], d,
                                            percentiles)
  /\ site_i' = site_i + 1
  /\ IF site_i = Len(sites)
     THEN temporal_df' = DataFrame(results') /\ pc' = "classify"
     ELSE UNCHANGED <<temporal_df, pc>>
  /\ UNCHANGED <<percentiles, merged_df, written>>
  /\ UNCHANGED Inputs /\ UNCHANGED cvars /\ UNCHANGED lvars

\* temporal_df = merged_df.copy()
PlainCopy ==
  /\ pc = "copy"
  /\ temporal_df' = merged_df
  /\ pc' = "plain"
  /\ UNCHANGED <<site_i, percentiles, merged_df, results, written>>
  /\ UNCHANGED Inputs /\ UNCHANGED dyn /\ UNCHANGED cvars /\ UNCHANGED lvars

\* One pass of `for site in sites:` without high-resolution data
PlainStep ==
  /\ pc = "plain" /\ site_i <= Len(sites)
  /\ temporal_df' = PlainSite(temporal_df, sites[site_i])
  /\ written' = written \cup
       {<<sites[site_i], t>> : t \in PlainWrites(temporal_df, sites[site_i])}
  /\ site_i' = site_i + 1
  /\ pc' = IF site_i = Len(sites) THEN "classify" ELSE "plain"
  /\ UNCHANGED <<percentiles, merged_df, results>>
  /\ UNCHANGED Inputs /\ UNCHANGED dyn /\ UNCHANGED cvars /\ UNCHANGED lvars

\* [5/6]: the loop over temporal_df.iterrows() and the three new columns
ClassifyAll ==
  /\ pc = "classify"
  /\ temporal_df' = ClassifyRows(temporal_df, percentiles)
  /\ pc' = "done"
  /\ UNCHANGED <<site_i, percentiles, merged_df, results, written>>
  /\ UNCHANGED Inputs /\ UNCHANGED dyn /\ UNCHANGED cvars /\ UNCHANGED lvars

Next ==
  \/ BuildPercentiles
  \/ UpdatePercentiles
  \/ TagPositions
  \/ HighresStep
  \/ PlainCopy
  \/ PlainStep
  \/ ClassifyAll

Spec == Init /\ [][Next]_vars

\* ------------------------------------------------------------------------
\* classify_cq_behavior_simple called on its own.  The unit is 0.001.
\* ------------------------------------------------------------------------
BehaviorDiffs == {-20000, -5000, -1001, -1000, -1, 0, 1, 1000, 1001, 5000, 20000}
BehaviorRanges == {<<0, 100000>>, <<0, 10000>>, <<7, 7>>}
BehaviorFactors == {1, 10}

BehaviorInit ==
  /\ lpc = "call"
  /\ larg \in [flow_diff : BehaviorDiffs, conc_diff : BehaviorDiffs,
               flow_range : BehaviorRanges, conc_range : BehaviorRanges,
               threshold_factor : BehaviorFactors]
  /\ lout = <<>>
  /\ RunOff /\ ClassifyOff

BehaviorCall ==
  /\ lpc = "call"
  /\ lout' = classify_cq_behavior_simple(larg.flow_diff, larg.conc_diff,
                                         larg.flow_range, larg.conc_range,
                                         larg.threshold_factor)
  /\ lpc' = "done"
  /\ UNCHANGED larg /\ UNCHANGED cvars /\ UNCHANGED rvars

BehaviorNext == BehaviorCall

SpecBehavior == BehaviorInit /\ [][BehaviorNext]_vars


\* ------------------------------------------------------------------------
\* compute_cq_slope called on its own: on values in their natural unit,
\* and, for the linear slope, on values given in units of 2.5e-13, where
\* 1e-12 is four units.
\* ------------------------------------------------------------------------
SlopeValues == {-1, 0, 1, 4, 10, 20}
FineValues == {0, 2, 3, 4, 8}
FineEps == 4

SlopeInit ==
  /\ lpc = "call"
  /\ larg \in [q1 : SlopeValues, q2 : SlopeValues, c1 : SlopeValues,
               c2 : SlopeValues, kind : {"loglog", "linear"}, eps : {1}]
              \cup
              [q1 : FineValues, q2 : FineValues, c1 : FineValues,
               c2 : FineValues, kind : {"linear"}, eps : {FineEps}]
  /\ lout = <<>>
  /\ RunOff /\ ClassifyOff

SlopeCall ==
  /\ lpc = "call"
  /\ lout' = SlopeWithin(larg.q1, larg.q2, larg.c1, larg.c2, larg.kind,
                         larg.eps)
  /\ lpc' = "done"
  /\ UNCHANGED larg /\ UNCHANGED cvars /\ UNCHANGED rvars

SlopeNext == SlopeCall

SpecSlope == SlopeInit /\ [][SlopeNext]_vars

\* ------------------------------------------------------------------------
\* _build_segments called on its own, on at most MaxObs observations in any
\* order, of two listed sites and one that is not listed.
\* ------------------------------------------------------------------------
MaxObs == 3
ObsKeys == {<<"A", 1>>, <<"A", 2>>, <<"A", 3>>, <<"B", 1>>, <<"B", 2>>,
            <<"X", 2>>}
Readings == {<<10, 1>>, <<20, 4>>, <<NaN, 1>>, <<10, NaN>>}
Obs == {[site_id |-> k[1], date |-> k[2], Q |-> r[1], C |-> r[2]] :
          k \in ObsKeys, r \in Readings}
DistinctKeys(df) ==
  \A i, j \in DOMAIN df :
    (df[i].site_id = df[j].site_id /\ df[i].date = df[j].date) => i = j
ObsLists ==
  {df \in UNION {[1..n -> Obs] : n \in 0..MaxObs} : DistinctKeys(df)}
SiteLists == {<<"A", "B">>, <<"B", "A">>}

SegmentsInit ==
  /\ lpc = "call"
  /\ larg \in [data : ObsLists, sites : SiteLists]
  /\ lout = <<>>
  /\ RunOff /\ ClassifyOff

SegmentsCall ==
  /\ lpc = "call"
  /\ lout' = build_segments(larg.data, larg.sites)
  /\ lpc' = "done"
  /\ UNCHANGED larg /\ UNCHANGED cvars /\ UNCHANGED rvars

SegmentsNext == SegmentsCall

SpecSegments == SegmentsInit /\ [][SegmentsNext]_vars

\* ------------------------------------------------------------------------
\* compute_change_percentiles called on its own, on the observation lists
\* _build_segments is called on.
\* ------------------------------------------------------------------------
PercentilesInit ==
  /\ lpc = "call"
  /\ larg \in [data : ObsLists, sites : SiteLists]
  /\ lout = <<>>
  /\ RunOff /\ ClassifyOff

PercentilesCall ==
  /\ lpc = "call"
  /\ lout' = compute_change_percentiles(larg.data, larg.sites)
  /\ lpc' = "done"
  /\ UNCHANGED larg /\ UNCHANGED cvars /\ UNCHANGED rvars

PercentilesNext == PercentilesCall

SpecPercentiles == PercentilesInit /\ [][PercentilesNext]_vars

\* ------------------------------------------------------------------------
\* The sampling loop of calculate_lawlerlloyd_metrics on the limb values
\* at MaxSamples percentiles at most.
\* ------------------------------------------------------------------------
MaxSamples == 2
LimbValues == {0, 25, 50, 100, NaN}
LimbLists ==
  UNION {[1..n -> [C_rise : LimbValues, C_fall : LimbValues]] :
           n \in 1..MaxSamples}

LloydInit ==
  /\ lpc = "call"
  /\ larg \in [limbs : LimbLists]
  /\ lout = <<>>
  /\ RunOff /\ ClassifyOff

LloydCall ==
  /\ lpc = "call"
  /\ lout' = HI_data(larg.limbs)
  /\ lpc' = "done"
  /\ UNCHANGED larg /\ UNCHANGED cvars /\ UNCHANGED rvars

LloydNext == LloydCall

SpecLloyd == LloydInit /\ [][LloydNext]_vars

\* ------------------------------------------------------------------------
\* The classification step of calculate_zuecco_metrics, on series of
\* SeriesLen hourly values and AreaLen differential areas.
\* ------------------------------------------------------------------------
SeriesLen == 3
AreaLen == 2
SeriesValues == {0, 1, 2}
AreaValues == {-1, 0, 1, NaN}

ZueccoInit ==
  /\ lpc = "call"
  /\ larg \in [x : [1..SeriesLen -> SeriesValues],
               y : [1..SeriesLen -> SeriesValues],
               diff_area : [1..AreaLen -> AreaValues]]
  /\ lout = <<>>
  /\ RunOff /\ ClassifyOff

ZueccoCall ==
  /\ lpc = "call"
  /\ lout' = ZueccoMetrics(larg.x, larg.y, larg.diff_area)
  /\ lpc' = "done"
  /\ UNCHANGED larg /\ UNCHANGED cvars /\ UNCHANGED rvars

ZueccoNext == ZueccoCall

SpecZuecco == ZueccoInit /\ [][ZueccoNext]_vars

\* ------------------------------------------------------------------------
\* The area step of calculate_harp_metrics on limb tables of TableLen
\* domain points.  Which intersection _find_intersection reports depends on
\* the method the installation offers, so it is any of a few points or none.
\* ------------------------------------------------------------------------
TableLen == 4
XAt(k) == CASE k = 1 -> 0 [] k = 2 -> 10 [] k = 3 -> 30 [] k = 4 -> 60
            [] OTHER -> 100
RiseCells == {0, 120, NaN}
FallCells == {0, 60, 120, NaN}
CellPairs == {c \in RiseCells \X FallCells : ~(IsNaN(c[1]) /\ IsNaN(c[2]))}
LimbTables ==
  {[k \in 1..TableLen |-> [x |-> XAt(k), rise |-> f[k][1], fall |-> f[k][2]]] :
     f \in [1..TableLen -> CellPairs]}
Crossings == {10, 30, 45}

HarpInit ==
  /\ lpc = "call"
  /\ larg \in [table : LimbTables, found : {TRUE}, xQS : Crossings]
              \cup [table : LimbTables, found : {FALSE}, xQS : {0}]
  /\ lout = <<>>
  /\ RunOff /\ ClassifyOff

HarpCall ==
  /\ lpc = "call"
  /\ lout' = HarpAreas(larg.table, larg.found, larg.xQS)
  /\ lpc' = "done"
  /\ UNCHANGED larg /\ UNCHANGED cvars /\ UNCHANGED rvars

HarpNext == HarpCall

SpecHarp == HarpInit /\ [][HarpNext]_vars

\* ------------------------------------------------------------------------
\* compute_cvc_cvq_windows called on its own, on at most MaxObs
\* observations of two sites in any order, with windows of 2 and 3.
\* ------------------------------------------------------------------------
WindowKeys == {<<"A", 1>>, <<"A", 2>>, <<"A", 3>>, <<"A", 4>>, <<"B", 1>>,
               <<"B", 2>>}
WindowReadings == {<<0, 0>>, <<10, 1>>, <<20, 4>>, <<NaN, 1>>}
WindowObs == {[site_id |-> k[1], date |-> k[2], Q |-> r[1], C |-> r[2]] :
                k \in WindowKeys, r \in WindowReadings}
WindowLists ==
  {df \in UNION {[1..n -> WindowObs] : n \in 0..MaxObs} : DistinctKeys(df)}
Windows == {2, 3}

WindowsInit ==
  /\ lpc = "call"
  /\ larg \in [df : WindowLists, window : Windows]
  /\ lout = <<>>
  /\ RunOff /\ ClassifyOff

WindowsCall ==
  /\ lpc = "call"
  /\ lout' = compute_cvc_cvq_windows(larg.df, larg.window)
  /\ lpc' = "done"
  /\ UNCHANGED larg /\ UNCHANGED cvars /\ UNCHANGED rvars

WindowsNext == WindowsCall

SpecWindows == WindowsInit /\ [][WindowsNext]_vars

\* ------------------------------------------------------------------------
\* calculate_all_hysteresis_metrics and analyze_segment_flow_dynamics
\* called on their own, on windows of at most MaxWindow daily rows.
\* ------------------------------------------------------------------------
MaxWindow == 5
WindowCells == {<<5, 1>>, <<40, 4>>, <<NaN, 1>>, <<20, NaN>>}
DynWindows ==
  UNION {{[k \in 1..n |-> [t |-> k - 1, Q |-> f[k][1], C |-> f[k][2]]] :
            f \in [1..n -> WindowCells]} : n \in 0..MaxWindow}
Engines ==
  {[raises |-> TRUE, area |-> NaN, h_index |-> NaN, mean_HInew |-> NaN],
   [raises |-> FALSE, area |-> 10, h_index |-> 20, mean_HInew |-> 15],
   [raises |-> FALSE, area |-> -10, h_index |-> -20, mean_HInew |-> NaN]}

DynamicsInit ==
  /\ lpc \in {"hysteresis", "dynamics"}
  /\ larg \in [window : DynWindows, engine : Engines]
  /\ lout = <<>>
  /\ RunOff /\ ClassifyOff

HysteresisCall ==
  /\ lpc = "hysteresis"
  /\ lout' = calculate_all_hysteresis_metrics(larg.window, larg.engine)
  /\ lpc' = "hysteresis_done"
  /\ UNCHANGED larg /\ UNCHANGED cvars /\ UNCHANGED rvars

DynamicsCall ==
  /\ lpc = "dynamics"
  /\ lout' = analyze_segment_flow_dynamics(larg.window, TableMixed,
                                           larg.engine)
  /\ lpc' = "dynamics_done"
  /\ UNCHANGED larg /\ UNCHANGED cvars /\ UNCHANGED rvars

DynamicsNext == HysteresisCall \/ DynamicsCall

SpecDynamics == DynamicsInit /\ [][DynamicsNext]_vars

\* ------------------------------------------------------------------------
\* The C trajectory tag of one segment (the end of the inner loop of [4/6])
\* ------------------------------------------------------------------------
TrajectoryRows == {[RowDynamic EXCEPT !.conc_diff = d, !.C_position = c, !.prev_C_position = q] : d \in Diffs, c \in Positions, q \in {"none"} \cup Positions}

TrajectoryInit ==
  /\ lpc = "call"
  /\ larg \in [row : TrajectoryRows, percentiles : Tables]
  /\ lout = <<>>
  /\ RunOff /\ ClassifyOff

TrajectoryCall ==
  /\ lpc = "call"
  /\ lout' = WithTrajectory(larg.row, larg.percentiles)
  /\ lpc' = "done"
  /\ UNCHANGED larg
  /\ UNCHANGED rvars /\ UNCHANGED cvars

TrajectoryNext == TrajectoryCall

SpecTrajectory == TrajectoryInit /\ [][TrajectoryNext]_vars

\* ------------------------------------------------------------------------
\* The hysteresis window of one segment
\* ------------------------------------------------------------------------
MaxDuration == 10

\* The default fractions 0.4 and 0.2, none, a half and the whole duration.
\* The doubles of these fractions are not below them, so the product with a
\* whole number of days is not below the exact product.
Fractions == {0, 20, 40, 50, 100}

\* Segments of half a day up to MaxDuration days, starting at midnight or noon
WindowSegments == {[start_date |-> s, end_date |-> s + d] : s \in {40, 41}, d \in 1..(HalfDaysPerDay * MaxDuration)}

WindowInit ==
  /\ lpc = "call"
  /\ larg \in [row : WindowSegments, headex : Fractions, tailex : Fractions]
  /\ lout = <<>>
  /\ RunOff /\ ClassifyOff

WindowCall ==
  /\ lpc = "call"
  /\ lout' = [segment_start |-> segment_start(larg.row, larg.headex),
              segment_end |-> segment_end(larg.row, larg.tailex)]
  /\ lpc' = "done"
  /\ UNCHANGED larg
  /\ UNCHANGED rvars /\ UNCHANGED cvars

WindowNext == WindowCall

SpecWindow == WindowInit /\ [][WindowNext]_vars

\* ------------------------------------------------------------------------
\* The water-availability index of the segments
\* ------------------------------------------------------------------------
MaxWaiObs == 3
WaiKeys == {<<"A", 1>>, <<"A", 2>>, <<"B", 1>>, <<"B", 2>>, <<"X", 2>>}
WaiValues == {-200, 200, NaN}
WaiObs == {[site_id |-> k[1], date |-> k[2], Q |-> 10 * k[2], C |-> k[2], WAI |-> w] : k \in WaiKeys, w \in WaiValues}
WaiData == {df \in UNION {[1..n -> WaiObs] : n \in 0..MaxWaiObs} : DistinctKeys(df)}

WaiInit ==
  /\ lpc = "call"
  /\ larg \in [data : WaiData, water_avail_col : BOOLEAN]
  /\ lout = <<>>
  /\ RunOff /\ ClassifyOff

WaiCall ==
  /\ lpc = "call"
  /\ lout' = AddWAI(MergedKeys(larg.data, sites), larg.data, larg.water_avail_col)
  /\ lpc' = "done"
  /\ UNCHANGED larg
  /\ UNCHANGED rvars /\ UNCHANGED cvars

WaiNext == WaiCall

SpecWai == WaiInit /\ [][WaiNext]_vars

\* ------------------------------------------------------------------------
\* Claims about classify_segment_phase (checked under SpecClassify)
\* ------------------------------------------------------------------------
Phases == {"F", "L", "C", "D", "R", "V"}

\* C1: for every row and every threshold table the returned phase is one of
\* F, L, C, D, R, V and the returned confidence lies in [0, 1].
C1_PhaseAndConfidence ==
  cpc = "done" =>
    /\ cout.ret
    /\ cout.phase \in Phases
    /\ cout.confidence >= 0 /\ cout.confidence <= 100

\* C1 witness: a call that returned the fallback phase V.
C1_Witness == cpc = "done" /\ cout.phase = "V" /\ cout.confidence = 40

\* The condition under which each level returns, stated on the row alone
TrigF(row, p) ==
  \/ current_steep(row, p) /\ (q_at_peak(row) \/ q_high(row))
  \/ /\ prev_steep(row, p) /\ q_high(row)
     /\ Lt(days_since_peak(row), 15)
     /\ Lt(Abs(conc_diff(row)), p.abs_dC_p75)
  \/ prev2_steep(row, p) /\ q_at_peak(row)
  \/ /\ Lt(conc_diff(row), p.dC_p01)
     /\ \/ cq_slope_positive(row)
        \/ Gt(flow_diff(row), 0)
        \/ q_pos(row) \in {"high", "medium"}
TrigL(row, p) ==
  \/ c_pos(row) = "high" /\ Gt(conc_diff(row), 0)
  \/ Gt(conc_diff(row), p.dC_p90) /\ Le(flow_diff(row), p.dQ_p75)
TrigC(row, p) ==
  /\ Abs(Hi(row)) < 12
  /\ hi_transition(row) = "stable"
  /\ ~(c_pos(row) = "high" /\ Gt(conc_diff(row), 0))
  /\ ~(q_high(row) /\ Gt(Abs(conc_diff(row)), p.abs_dC_p75))
  /\ ~(in_post_flush(row, p) /\ post_peak(row))
TrigD(row, p) ==
  /\ post_peak_phase(row)
  /\ Lt(Abs(conc_diff(row)), p.abs_dC_p75)
  /\ prev_c_declining(row, p) \/ prev2_c_declining(row, p)
  /\ Lt(flow_diff(row), 0) \/ Lt(flow_diff(row), p.dQ_p10)
TrigR(row, p) ==
  \/ Lt(cvc_cvq(row), 80) /\ Lt(flow_diff(row), p.dQ_p25)
  \/ both_declining(row, p) /\ late_cycle(row)

FirstMatch(row, p) ==
  IF TrigF(row, p) THEN "F"
  ELSE IF TrigL(row, p) THEN "L"
  ELSE IF TrigC(row, p) THEN "C"
  ELSE IF TrigD(row, p) THEN "D"
  ELSE IF TrigR(row, p) THEN "R"
  ELSE "V"

\* C2: the returned phase is that of the first level, in the order F, L, C,
\* D, R, V, one of whose triggers holds for the row; a row with a steep
\* current decline (conc_diff < dC_p08) during elevated or peaking flow is F
\* whatever lower-priority triggers hold as well.
C2_FirstMatchWins ==
  cpc = "done" =>
    /\ cout.phase = FirstMatch(crow, cperc)
    /\ (current_steep(crow, cperc) /\ (q_at_peak(crow) \/ q_high(crow))
          => cout.phase = "F")

\* C2 witness: a steep decline during elevated flow that also meets the
\* Loading trigger (C_position high, conc_diff > 0) and is returned as F;
\* and one that also meets the Chemostatic trigger.
C2_Witness ==
  /\ cpc = "done" /\ cout.phase = "F"
  /\ current_steep(crow, cperc) /\ q_high(crow)
  /\ \/ c_pos(crow) = "high" /\ Gt(conc_diff(crow), 0)
     \/ TrigC(crow, cperc)

\* C3: the confidence lies in the range documented for the phase, V has 0.60
\* exactly when both |conc_diff| < 30 and |flow_diff| < 30, and a result
\* boosted by the water-availability index never exceeds 0.98.
C3_ConfidenceRanges ==
  cpc = "done" =>
    /\ cout.phase = "F" => cout.confidence >= 70 /\ cout.confidence <= 98
    /\ cout.phase = "L" => cout.confidence >= 80 /\ cout.confidence <= 98
    /\ cout.phase = "C" => cout.confidence \in {85, 90}
    /\ cout.phase = "D" => cout.confidence >= 75 /\ cout.confidence <= 85
    /\ cout.phase = "R" => cout.confidence >= 70 /\ cout.confidence <= 85
    /\ cout.phase = "V" =>
         /\ cout.confidence \in {40, 60}
         /\ cout.confidence = 60 <=>
               (Lt(Abs(conc_diff(crow)), 30) /\ Lt(Abs(flow_diff(crow)), 30))
    /\ (\E i \in DOMAIN cout.rules :
           cout.rules[i] \in {"high_wai_wet", "low_wai_accumulation"})
         => cout.confidence <= 98

\* C3 witness: a Flushing result of 0.95 boosted by a wet WAI to 0.98.
C3_Witness ==
  /\ cpc = "done" /\ cout.phase = "F" /\ cout.confidence = 98
  /\ \E i \in DOMAIN cout.rules : cout.rules[i] = "high_wai_wet"

\* A window index as the classifier reads it: row.get(key, 0.0)
ReadIndex(v) == IF v = Missing THEN 0 ELSE v

\* C11: the hysteresis index the classifier uses is the window Zuecco index
\* if that is not NaN, else the window Lloyd index if that is not NaN, else
\* the window HARP index if that is not NaN, else 0.
C11_IndexFallback ==
  cpc = "done" =>
    LET z == ReadIndex(crow.window_HI_zuecco)
        l == ReadIndex(crow.window_HI_lloyd)
        h == ReadIndex(crow.window_HI_harp)
    IN Hi(crow) = (IF z # NaN THEN z
                   ELSE IF l # NaN THEN l
                   ELSE IF h # NaN THEN h
                   ELSE 0)

\* C11 witness: the Zuecco index is NaN and the Lloyd index is used
C11_Witness ==
  /\ cpc = "done"
  /\ crow.window_HI_zuecco = NaN /\ crow.window_HI_lloyd = -21
  /\ Hi(crow) = -21

\* ------------------------------------------------------------------------
\* Claims about the run of classify_geochemical_phase (checked under Spec)
\* ------------------------------------------------------------------------
\* The branch of [4/6] the run takes
Highres == use_highres /\ flow_highres

\* The rows of one site in a frame, in the order of the frame
SiteRows(df, site) == SelectSeq(df, LAMBDA r : r.site_id = site)

\* r and q are the same row but for the three columns of [5/6]
SameButResult(r, q) ==
  r = [q EXCEPT !.geochemical_phase = r.geochemical_phase,
                !.phase_confidence = r.phase_confidence,
                !.rules_triggered = r.rules_triggered]

Reverse(s) == [k \in DOMAIN s |-> s[Len(s) + 1 - k]]

\* C5: the rows of every site in the returned frame (context fields, phase,
\* confidence and rules) are the rows the run returns for that site when the
\* sites are listed in the opposite order, and the pass over one site writes
\* to rows of that site only; with and without high-resolution data.
C5_SiteOrderIndependent ==
  pc = "done" =>
    /\ \A s \in Sites :
         SiteRows(temporal_df, s) =
           SiteRows(Run(Reverse(sites), segs, Highres, dyn, data_table), s)
    /\ \A w \in written : w[1] = w[2]

\* The keys of the threshold table that a later step reads
ThresholdKeys ==
  {"Q_p25", "Q_p50", "Q_p75", "C_p25", "C_p50", "C_p75",
   "dC_p01", "dC_p08", "dC_p25", "dC_p75", "dC_p90",
   "dQ_p10", "dQ_p25", "dQ_p75", "abs_dC_p50", "abs_dC_p75"}

\* Some segment is position-tagged, annotated or classified
Started ==
  \/ \E k \in DOMAIN merged_df : merged_df[k].Q_position # "missing"
  \/ \E k \in DOMAIN merged_df : merged_df[k].C_position # "missing"
  \/ results # <<>>
  \/ temporal_df # <<>>

\* C6: the threshold table holds all its entries before the first segment is
\* position-tagged, annotated or classified, and once it holds them no step
\* adds, removes or changes an entry.
C6_TableBuiltFirst ==
  /\ [](Started => DOMAIN percentiles = ThresholdKeys)
  /\ [][DOMAIN percentiles = ThresholdKeys =>
          percentiles' = percentiles]_vars

\* C6 witness: a run with high-resolution data has classified its segments
\* and the table is the one built at the start
C6_Witness ==
  /\ pc = "done" /\ Highres /\ Len(temporal_df) >= 2
  /\ DOMAIN percentiles = ThresholdKeys
  /\ percentiles.dC_p08 = 8 /\ percentiles.Q_p75 = 30

\* The window analysis of a segment failed: it raised or returned None
Failed(fd) == fd.kind \in {"raise", "none"}

\* Row k of the frame is segment i of site s
IsSegment(r, s, i) == r.site_id = s /\ r.end_date = SampleStep * i

\* C7: a segment whose window analysis raises or returns no result gets
\* highres_flow_phase 'unknown' and highres_days_since_peak NaN and is
\* classified, and every other segment has the fields and the
\* classification it has in the run where that analysis returns a result.
C7_FailureIsolated ==
  (pc = "done" /\ Highres) =>
    \A s \in Sites : \A i \in DOMAIN dyn[s] :
      Failed(dyn[s][i]) =>
        /\ \E k \in DOMAIN temporal_df :
             /\ IsSegment(temporal_df[k], s, i)
             /\ temporal_df[k].highres_flow_phase = "unknown"
             /\ temporal_df[k].highres_days_since_peak = NaN
             /\ temporal_df[k].geochemical_phase \in Phases
        /\ \A alt \in {d \in DynOutcomes : ~Failed(d)} :
             LET other == Run(sites, segs, TRUE,
                              [dyn EXCEPT ![s][i] = alt], data_table)
             IN \A k \in DOMAIN temporal_df :
                  ~IsSegment(temporal_df[k], s, i) =>
                    temporal_df[k] = other[k]

\* C8: with high-resolution data the prev_* fields of a site's segment i are
\* the fields of the site's segment i-1, the prev2_* fields those of segment
\* i-2, next_C_position the C_position of segment i+1; 'none', 0 or NaN
\* where the site has no such segment.
C8_HighresContext ==
  (pc = "done" /\ Highres) =>
    \A s \in Sites :
      LET r == SiteRows(temporal_df, s)
      IN /\ Len(r) = Len(segs[s])
         /\ \A i \in DOMAIN r :
              /\ r[i].end_date = SampleStep * i
              /\ IF i > 1
                 THEN /\ r[i].prev_behavior = r[i - 1].behavior
                      /\ r[i].prev_CVc_CVq = r[i - 1].CVc_CVq
                      /\ r[i].prev_Q_position = r[i - 1].Q_position
                      /\ r[i].prev_C_position = r[i - 1].C_position
                      /\ r[i].prev_conc_diff = r[i - 1].conc_diff
                      /\ r[i].prev_flow_diff = r[i - 1].flow_diff
                 ELSE /\ r[i].prev_behavior = "none"
                      /\ r[i].prev_CVc_CVq = NaN
                      /\ r[i].prev_Q_position = "none"
                      /\ r[i].prev_C_position = "none"
                      /\ r[i].prev_conc_diff = 0
                      /\ r[i].prev_flow_diff = 0
              /\ IF i > 2
                 THEN /\ r[i].prev2_conc_diff = r[i - 2].conc_diff
                      /\ r[i].prev2_C_position = r[i - 2].C_position
                 ELSE /\ r[i].prev2_conc_diff = 0
                      /\ r[i].prev2_C_position = "none"
              /\ IF i < Len(r)
                 THEN r[i].next_C_position = r[i + 1].C_position
                 ELSE r[i].next_C_position = "none"

\* C8 witness: a site of three segments, the first a flush and the second a
\* loading segment, whose third segment looks back at both
C8_Witness ==
  /\ pc = "done" /\ Highres
  /\ \E s \in Sites :
       /\ Len(segs[s]) = 3
       /\ segs[s][1] = SegFlush /\ segs[s][2] = SegLoad
       /\ SiteRows(temporal_df, s)[3].prev2_conc_diff = -40
       /\ SiteRows(temporal_df, s)[3].prev_conc_diff = 25
       /\ SiteRows(temporal_df, s)[2].next_C_position \in {"low", "high"}

\* C9: without high-resolution data every segment of every listed site has
\* prev_conc_diff and prev_C_position of the segment before it at its own
\* site, prev2_conc_diff of the one before that (0 / 'none' where there is
\* none), highres_flow_phase 'unknown', highres_days_since_peak NaN and
\* HI_transition 'stable', and is classified.
C9_PlainContext ==
  (pc = "done" /\ ~Highres) =>
    \A s \in Sites :
      LET r == SiteRows(temporal_df, s)
      IN /\ Len(r) = Len(segs[s])
         /\ \A i \in DOMAIN r :
              /\ r[i].prev_conc_diff =
                   (IF i > 1 THEN r[i - 1].conc_diff ELSE 0)
              /\ r[i].prev_C_position =
                   (IF i > 1 THEN r[i - 1].C_position ELSE "none")
              /\ r[i].prev2_conc_diff =
                   (IF i > 2 THEN r[i - 2].conc_diff ELSE 0)
              /\ r[i].highres_flow_phase = "unknown"
              /\ r[i].highres_days_since_peak = NaN
              /\ r[i].HI_transition = "stable"
              /\ r[i].geochemical_phase \in Phases

\* The window Zuecco index computed for a segment; NaN if undefined
WindowZuecco(fd) ==
  IF Failed(fd) \/ ~fd.has_hi THEN NaN ELSE fd.window_HI_zuecco

\* C10: with high-resolution data HI_transition is 'first' for a site's
\* first segment; for a later one 'pos_to_neg' if the window Zuecco index of
\* the previous segment is > 0.01 and that of the segment is < -0.01,
\* 'neg_to_pos' if the previous is < -0.01 and the current > 0.01, 'stable'
\* otherwise, also when either index is undefined.
C10_HITransition ==
  (pc = "done" /\ Highres) =>
    \A s \in Sites :
      LET r == SiteRows(temporal_df, s)
      IN \A i \in DOMAIN r :
           IF i = 1 THEN r[i].HI_transition = "first"
           ELSE LET prev_hi == WindowZuecco(dyn[s][i - 1])
                    current_hi == WindowZuecco(dyn[s][i])
                IN r[i].HI_transition =
                     (IF IsNaN(prev_hi) \/ IsNaN(current_hi) THEN "stable"
                      ELSE IF prev_hi > 1 /\ current_hi < -1
                      THEN "pos_to_neg"
                      ELSE IF prev_hi < -1 /\ current_hi > 1
                      THEN "neg_to_pos"
                      ELSE "stable")

\* ------------------------------------------------------------------------
\* Claims about classify_cq_behavior_simple (checked under SpecBehavior)
\* ------------------------------------------------------------------------
\* |delta| > threshold_factor x (max - min), never for a width of 0
Significant(diff, range, factor) ==
  /\ range[2] - range[1] > 0
  /\ 100 * (IF diff < 0 THEN -diff ELSE diff) > factor * (range[2] - range[1])

\* C13: 'static' when neither change is significant, 'quasi-chemostatic'
\* when only the flow change is, 'source variation' when only the
\* concentration change is; when both are, 'connectivity' for dQ>0 and dC>0,
\* 'recovery' for dQ<0 and dC<0, 'dispersion' for dQ>0 and dC<0,
\* 'accumulation' for dQ<0 and dC>0.
C13_BehaviorTable ==
  lpc = "done" =>
    LET dq == larg.flow_diff
        dc == larg.conc_diff
        sq == Significant(dq, larg.flow_range, larg.threshold_factor)
        sc == Significant(dc, larg.conc_range, larg.threshold_factor)
    IN /\ (~sq /\ ~sc) => lout = "static"
       /\ (sq /\ ~sc) => lout = "quasi-chemostatic"
       /\ (~sq /\ sc) => lout = "source variation"
       /\ (sq /\ sc /\ dq > 0 /\ dc > 0) => lout = "connectivity"
       /\ (sq /\ sc /\ dq < 0 /\ dc < 0) => lout = "recovery"
       /\ (sq /\ sc /\ dq > 0 /\ dc < 0) => lout = "dispersion"
       /\ (sq /\ sc /\ dq < 0 /\ dc > 0) => lout = "accumulation"
       /\ lout \in {"static", "quasi-chemostatic", "source variation",
                    "connectivity", "recovery", "dispersion",
                    "accumulation"}
       /\ (dq = 20000 /\ dc = 5000 /\ larg.flow_range = <<0, 100000>>
           /\ larg.conc_range = <<0, 10000>> /\ larg.threshold_factor = 1)
            => lout = "connectivity"
       /\ (dq = 1 /\ dc = 1 /\ larg.flow_range = <<0, 100000>>
           /\ larg.conc_range = <<0, 10000>> /\ larg.threshold_factor = 1)
            => lout = "static"

\* C13 witness: dQ = -20, dC = +5 with ranges (0,100) and (0,10) and factor
\* 0.01 is 'accumulation'
C13_Witness ==
  /\ lpc = "done" /\ lout = "accumulation"
  /\ larg.flow_diff = -20000 /\ larg.conc_diff = 5000
  /\ larg.flow_range = <<0, 100000>> /\ larg.conc_range = <<0, 10000>>
  /\ larg.threshold_factor = 1

\* ------------------------------------------------------------------------
\* Claims about compute_cq_slope (checked under SpecSlope)
\* ------------------------------------------------------------------------
\* The slope the formulas give where they are defined
SlopeFormula(a) ==
  IF a.kind = "linear" THEN Ratio(a.c2 - a.c1, a.q2 - a.q1)
  ELSE Ratio(Log10(a.c2) - Log10(a.c1), Log10(a.q2) - Log10(a.q1))

\* C14: the slope is NaN for kind 'loglog' when any of q1, q2, c1, c2 is
\* <= 0 or q1 = q2, and for kind 'linear' when q1 = q2; otherwise it is
\* (log10 c2 - log10 c1)/(log10 q2 - log10 q1), respectively
\* (c2 - c1)/(q2 - q1); (10, 20, 1, 4) has the log-log slope 2.
C14_SlopeOrNaN ==
  lpc = "done" =>
    LET undefined ==
          IF larg.kind = "linear" THEN larg.q1 = larg.q2
          ELSE \/ larg.q1 <= 0 \/ larg.q2 <= 0 \/ larg.c1 <= 0
               \/ larg.c2 <= 0 \/ larg.q1 = larg.q2
    IN /\ undefined => lout = NaN
       /\ ~undefined => lout = SlopeFormula(larg)
       /\ (larg.kind = "loglog" /\ larg.eps = 1 /\ larg.q1 = 10
           /\ larg.q2 = 20 /\ larg.c1 = 1 /\ larg.c2 = 4) => lout = 200

\* C14 as the code has it: the linear slope is NaN whenever |q2 - q1| is
\* below 1e-12, the log-log slope whenever a value is <= 0 or
\* |log10 q2 - log10 q1| is below 1e-12; otherwise the slope is the
\* quotient of the differences, and (10, 20, 1, 4) has the log-log slope 2.
C14_SlopeOrNaNWithin ==
  lpc = "done" =>
    LET undefined ==
          IF larg.kind = "linear" THEN Abs(larg.q2 - larg.q1) < larg.eps
          ELSE \/ larg.q1 <= 0 \/ larg.q2 <= 0 \/ larg.c1 <= 0
               \/ larg.c2 <= 0 \/ Log10(larg.q2) = Log10(larg.q1)
    IN /\ undefined => lout = NaN
       /\ ~undefined => lout = SlopeFormula(larg)
       /\ (larg.kind = "loglog" /\ larg.eps = 1 /\ larg.q1 = 10
           /\ larg.q2 = 20 /\ larg.c1 = 1 /\ larg.c2 = 4) => lout = 200

\* C14 witness: the linear slope of two discharges 5e-13 apart is NaN
C14_Witness ==
  /\ lpc = "done" /\ larg.kind = "linear" /\ larg.eps = FineEps
  /\ larg.q1 = 2 /\ larg.q2 = 4 /\ larg.c1 = 0 /\ larg.c2 = 8
  /\ lout = NaN

\* ------------------------------------------------------------------------
\* Claims about _build_segments (checked under SpecSegments)
\* ------------------------------------------------------------------------
\* The valid observations of a site: both Q and C present
ValidOf(df, site) ==
  {df[k] : k \in {j \in DOMAIN df : /\ df[j].site_id = site
                                    /\ df[j].Q # NaN /\ df[j].C # NaN}}

\* The i-th of a set of observations by ascending date
NthByDate(S, i) ==
  CHOOSE o \in S : Cardinality({x \in S : x.date < o.date}) = i - 1

\* The segments emitted for a site, in the order emitted
EmittedFor(out, site) == SelectSeq(out, LAMBDA s : s.site_id = site)

\* C12: each listed site with n >= 2 valid observations gets exactly n - 1
\* segments in ascending date order, segment i pairing observation i with
\* observation i+1 of that site, with flow_diff = end_flow - start_flow and
\* conc_diff = end_conc - start_conc; observations with a missing Q or C
\* are dropped before pairing, no segment pairs two sites, and a site with
\* fewer than two valid observations gets none.
C12_SegmentsPerSite ==
  lpc = "done" =>
    /\ \A k \in DOMAIN lout : InList(lout[k].site_id, larg.sites)
    /\ \A site \in {"A", "B"} :
         LET V == ValidOf(larg.data, site)
             n == Cardinality(V)
             segs_ == EmittedFor(lout, site)
         IN /\ Len(segs_) = (IF n >= 2 THEN n - 1 ELSE 0)
            /\ \A i \in DOMAIN segs_ :
                 LET a == NthByDate(V, i)
                     b == NthByDate(V, i + 1)
                     s == segs_[i]
                 IN /\ s.start_date = a.date /\ s.end_date = b.date
                    /\ s.start_flow = a.Q /\ s.end_flow = b.Q
                    /\ s.start_conc = a.C /\ s.end_conc = b.C
                    /\ s.flow_diff = s.end_flow - s.start_flow
                    /\ s.conc_diff = s.end_conc - s.start_conc
                    /\ s.start_date < s.end_date

\* C12 witness: three valid observations of site A handed over out of date
\* order give two segments, first to second and second to third
C12_Witness ==
  /\ lpc = "done"
  /\ Len(larg.data) = 3
  /\ Cardinality(ValidOf(larg.data, "A")) = 3
  /\ larg.data[1].date = 3 /\ larg.data[2].date = 1 /\ larg.data[3].date = 2
  /\ Len(lout) = 2
  /\ lout[1].start_date = 1 /\ lout[1].end_date = 2
  /\ lout[2].start_date = 2 /\ lout[2].end_date = 3

\* ------------------------------------------------------------------------
\* Claims about compute_change_percentiles (checked under SpecPercentiles)
\* ------------------------------------------------------------------------
\* The concentration differences between observations of one site that
\* follow each other in time, as a bag
SuccessiveDC(df, site) ==
  LET S == {df[k] : k \in {j \in DOMAIN df : df[j].site_id = site}}
      next(o) == {x \in S : /\ x.date > o.date
                            /\ \A y \in S : y.date > o.date => x.date <= y.date}
      steps == {<<o, x>> \in S \X S : x \in next(o) /\ o.C # NaN /\ x.C # NaN}
  IN steps

RECURSIVE SetToSeq(_)
SetToSeq(S) ==
  IF S = {} THEN <<>>
  ELSE LET e == CHOOSE x \in S : TRUE IN <<e>> \o SetToSeq(S \ {e})

PooledDC(df, site_list) ==
  LET steps == UNION {SuccessiveDC(df, site_list[k]) : k \in DOMAIN site_list}
      seq == SetToSeq(steps)
  IN [k \in DOMAIN seq |-> seq[k][2].C - seq[k][1].C]

\* Twice the median of a list of integers that is not empty
Median2(xs) ==
  LET s == SortInts(xs)
      n == Len(s)
  IN IF n % 2 = 1 THEN 2 * s[(n + 1) \div 2]
     ELSE s[n \div 2] + s[(n \div 2) + 1]

\* C15: the differences pooled are those between consecutive time-sorted
\* observations of each listed site, never across two sites; dC_p50 is the
\* median of the pooled concentration differences; the thresholds are
\* monotone, dC_p01 <= dC_p05 <= dC_p08 <= dC_p10 <= dC_p25 <= dC_p50 <=
\* dC_p75 <= dC_p90 <= dC_p95 and dQ_p05 <= dQ_p10 <= dQ_p25 <= dQ_p50 <=
\* dQ_p75 <= dQ_p90.
C15_PooledPercentiles ==
  (lpc = "done" /\ "error" \notin DOMAIN lout) =>
    LET pooled == PooledDC(larg.data, larg.sites)
    IN /\ pooled # <<>>
       /\ 2 * lout.dC_p50 = 100 * Median2(pooled)
       /\ lout.dC_p01 <= lout.dC_p05 /\ lout.dC_p05 <= lout.dC_p08
       /\ lout.dC_p08 <= lout.dC_p10 /\ lout.dC_p10 <= lout.dC_p25
       /\ lout.dC_p25 <= lout.dC_p50 /\ lout.dC_p50 <= lout.dC_p75
       /\ lout.dC_p75 <= lout.dC_p90 /\ lout.dC_p90 <= lout.dC_p95
       /\ lout.dQ_p05 <= lout.dQ_p10 /\ lout.dQ_p10 <= lout.dQ_p25
       /\ lout.dQ_p25 <= lout.dQ_p50 /\ lout.dQ_p50 <= lout.dQ_p75
       /\ lout.dQ_p75 <= lout.dQ_p90

\* ------------------------------------------------------------------------
\* Claims about calculate_lawlerlloyd_metrics (checked under SpecLloyd)
\* ------------------------------------------------------------------------
\* The sampled percentiles where both limbs have the same value
EqualLimbs ==
  {k \in DOMAIN larg.limbs :
     /\ larg.limbs[k].C_rise # NaN
     /\ larg.limbs[k].C_rise = larg.limbs[k].C_fall}

\* C16: at a sampled percentile where C_rise == C_fall, HIL is NaN and
\* HInew is 0.
C16_EqualLimbs ==
  lpc = "done" =>
    \A k \in EqualLimbs : lout[k].HIL = NaN /\ lout[k].HInew = 0

\* C16 as the code has it: at a sampled percentile where C_rise == C_fall,
\* HInew is 0 and HIL is 0 too, except that HIL is NaN where both limb
\* values are 0.
C16_EqualLimbsZero ==
  lpc = "done" =>
    \A k \in EqualLimbs :
      /\ lout[k].HInew = 0
      /\ lout[k].HIL = (IF larg.limbs[k].C_rise = 0 THEN NaN ELSE 0)

\* C16 witness: both limbs at 0.5 give HIL 0 and HInew 0
C16_Witness ==
  /\ lpc = "done"
  /\ larg.limbs[1].C_rise = 50 /\ larg.limbs[1].C_fall = 50
  /\ lout[1].HIL = 0 /\ lout[1].HInew = 0

\* ------------------------------------------------------------------------
\* Claims about the Zuecco class (checked under SpecZuecco)
\* ------------------------------------------------------------------------
\* The largest excursion of y above (up = TRUE) or below its start value
\* over the positions from..to, as a magnitude
Excursion(y, from, to, up) ==
  LET vals == {y[k] : k \in from..to}
      ext == IF up THEN CHOOSE v \in vals : \A w \in vals : w <= v
             ELSE CHOOSE v \in vals : \A w \in vals : w >= v
  IN IF ext >= y[1] THEN ext - y[1] ELSE y[1] - ext

\* The position of the discharge peak
PeakPos(x) ==
  CHOOSE p \in DOMAIN x :
    /\ \A k \in DOMAIN x : x[k] <= x[p]
    /\ \A k \in DOMAIN x : k < p => x[k] # x[p]

\* The class the table gives for the four columns; base is 0 for the
\* rise-excursion larger and 4 for the dip-excursion larger
TableClass(mn, mx, h, base) ==
  IF mn # NaN /\ mx # NaN /\ mn > 0 /\ mx > 0 THEN base + 1
  ELSE IF mn # NaN /\ mx # NaN /\ mn < 0 /\ mx < 0 THEN base + 4
  ELSE IF mn # NaN /\ mx # NaN /\ mn <= 0 /\ mx > 0 /\ h >= 0 THEN base + 2
  ELSE IF mn # NaN /\ mx # NaN /\ mn < 0 /\ mx >= 0 /\ h < 0 THEN base + 3
  ELSE 0

\* C17: the class is an integer in 0..8; it is 0 when the rise-excursion
\* and the dip-excursion are equal on the rising phase and again on the
\* falling phase; otherwise, with the rise-excursion larger, it is 1 for
\* min_diff_area>0 & max_diff_area>0, 4 for min<0 & max<0, 2 for min<=0 &
\* max>0 & h_index>=0, 3 for min<0 & max>=0 & h_index<0, else 0; with the
\* dip-excursion larger it is 5, 8, 6, 7, else 0 for the same columns.
C17_ZueccoClassTable ==
  lpc = "done" =>
    LET p == PeakPos(larg.x)
        n == Len(larg.y)
        up_rise == Excursion(larg.y, 1, p, TRUE)
        dn_rise == Excursion(larg.y, 1, p, FALSE)
        up_fall == Excursion(larg.y, p, n, TRUE)
        dn_fall == Excursion(larg.y, p, n, FALSE)
        up == IF up_rise # dn_rise THEN up_rise ELSE up_fall
        dn == IF up_rise # dn_rise THEN dn_rise ELSE dn_fall
        mn == lout.min_diff_area
        mx == lout.max_diff_area
        h == lout.h_index
    IN /\ lout.hyst_class \in 0..8
       /\ (up_rise = dn_rise /\ up_fall = dn_fall) => lout.hyst_class = 0
       /\ up > dn => lout.hyst_class = TableClass(mn, mx, h, 0)
       /\ up < dn => lout.hyst_class = TableClass(mn, mx, h, 4)

\* C17 witness: C dips below its start on the rising limb, and the areas are
\* of both signs with a positive sum: class 6
C17_Witness ==
  /\ lpc = "done"
  /\ larg.x = <<0, 1, 2>> /\ larg.y = <<1, 0, 1>>
  /\ larg.diff_area = <<-1, 1>> /\ lout.h_index = 0
  /\ lout.hyst_class = 6

\* ------------------------------------------------------------------------
\* Claims about the HARP areas (checked under SpecHarp)
\* ------------------------------------------------------------------------
Magnitude(a) == IF a < 0 THEN -a ELSE a

\* C18: with an intersection the area has the magnitude |area_lower| +
\* |area_upper| and the sign of the sub-area of larger magnitude; without
\* one the area is the signed integral of (rising - falling) over the whole
\* domain and area_lower and area_upper are NaN.
C18_AreaComposition ==
  lpc = "done" =>
    /\ larg.found =>
         /\ lout.area_lower # NaN /\ lout.area_upper # NaN
         /\ Magnitude(lout.area)
              = Magnitude(lout.area_lower) + Magnitude(lout.area_upper)
         /\ Magnitude(lout.area_lower) > Magnitude(lout.area_upper)
              => Sign(lout.area) = Sign(lout.area_lower)
         /\ Magnitude(lout.area_upper) > Magnitude(lout.area_lower)
              => Sign(lout.area) = Sign(lout.area_upper)
    /\ ~larg.found =>
         /\ lout.area_lower = NaN /\ lout.area_upper = NaN
         /\ lout.area = LimbArea(interpolate(larg.table))

\* C18 witness: a lower part of area -0.1 and an upper part of +0.3 give
\* the area +0.4
C18_Witness ==
  /\ lpc = "done" /\ larg.found
  /\ lout.area_lower = -1200 /\ lout.area_upper = 3600
  /\ lout.area = 4800

\* Twice the trapezoidal-rule integral of d = rise - fall over the points of
\* a limb table: the sum of (d_k + d_{k+1}) * (x_{k+1} - x_k)
RECURSIVE Trapezoid2From(_, _)
Trapezoid2From(limbs, k) ==
  IF k >= Len(limbs) THEN 0
  ELSE ((limbs[k].rise - limbs[k].fall)
        + (limbs[k + 1].rise - limbs[k + 1].fall))
       * (limbs[k + 1].x - limbs[k].x)
       + Trapezoid2From(limbs, k + 1)

\* Both limbs have a value at every point of the table
Complete(limbs) ==
  \A k \in DOMAIN limbs : limbs[k].rise # NaN /\ limbs[k].fall # NaN

LowerPart(table, xQS) ==
  interpolate(SelectSeq(table, LAMBDA r : r.x <= xQS))
UpperPart(table, xQS) ==
  interpolate(SelectSeq(table, LAMBDA r : r.x > xQS))

\* C19: each area (whole domain, lower part up to x*, upper part above x*)
\* is the trapezoidal-rule integral of d = rising - falling over the sorted
\* domain points of its limb table, the sum over k of
\* (d_k + d_{k+1})/2 * (x_{k+1} - x_k).
C19_TrapezoidRule ==
  lpc = "done" =>
    /\ (~larg.found /\ Complete(interpolate(larg.table)))
         => 2 * lout.area = Trapezoid2From(interpolate(larg.table), 1)
    /\ (larg.found /\ Complete(LowerPart(larg.table, larg.xQS)))
         => 2 * lout.area_lower
              = Trapezoid2From(LowerPart(larg.table, larg.xQS), 1)
    /\ (larg.found /\ Complete(UpperPart(larg.table, larg.xQS)))
         => 2 * lout.area_upper
              = Trapezoid2From(UpperPart(larg.table, larg.xQS), 1)

\* ------------------------------------------------------------------------
\* Claims about compute_cvc_cvq_windows (checked under SpecWindows)
\* ------------------------------------------------------------------------
\* The observations of a site
ObsOf(df, site) == {df[k] : k \in {j \in DOMAIN df : df[j].site_id = site}}

\* The window mean of a column is 0: it has values, and they sum to 0
MeanIsZero(S, from, to, col) ==
  LET vals == {NthByDate(S, i)[col] : i \in from..to} \ {NaN}
  IN vals = {0}

\* C20: each site with n observations gets max(0, n - window + 1) rows; the
\* k-th covers the observations k .. k+window-1 of that site by date, with
\* end_date the date of the last one and n_samples = window; CVq (CVc) is
\* NaN when the window mean of Q (C) is 0, and CVc_CVq is NaN whenever CVq
\* is 0 or NaN.
C20_WindowRows ==
  lpc = "done" =>
    \A site \in {"A", "B"} :
      LET S == ObsOf(larg.df, site)
          n == Cardinality(S)
          w == larg.window
          out == EmittedFor(lout, site)
      IN /\ Len(out) = (IF n - w + 1 > 0 THEN n - w + 1 ELSE 0)
         /\ \A k \in DOMAIN out :
              /\ out[k].start_date = NthByDate(S, k).date
              /\ out[k].end_date = NthByDate(S, k + w - 1).date
              /\ out[k].n_samples = w
              /\ out[k].window_id = k - 1
              /\ MeanIsZero(S, k, k + w - 1, "Q") => out[k].CVq = NaN
              /\ MeanIsZero(S, k, k + w - 1, "C") => out[k].CVc = NaN
              /\ (out[k].CVq = 0 \/ out[k].CVq = NaN)
                   => out[k].CVc_CVq = NaN

\* C20 witness: three observations of site A handed over latest first,
\* window 2: two rows, the second with a constant Q, so CVq = 0 and no ratio
C20_Witness ==
  /\ lpc = "done" /\ larg.window = 2
  /\ Cardinality(ObsOf(larg.df, "A")) = 3
  /\ Cardinality(ObsOf(larg.df, "B")) = 0
  /\ larg.df[1].date = 3
  /\ Len(lout) = 2
  /\ lout[1].CVq = 47 /\ lout[1].CVc_CVq # NaN
  /\ lout[2].window_id = 1 /\ lout[2].end_date = 3
  /\ lout[2].CVq = 0 /\ lout[2].CVc_CVq = NaN

\* ------------------------------------------------------------------------
\* Claims about the window-scale analysis (checked under SpecDynamics)
\* ------------------------------------------------------------------------
\* The rows of a window that hold both Q and C
CompleteRows(w) == {k \in DOMAIN w : w[k].Q # NaN /\ w[k].C # NaN}

\* C21: calculate_all_hysteresis_metrics on fewer than 3 rows returns empty
\* metric records and an error message; analyze_segment_flow_dynamics
\* returns no result for an empty, all-missing or fewer-than-2-row window,
\* holds the window_HI_* metrics only when the window has at least 5 rows,
\* and with 2 to 4 rows returns the flow-dynamics fields without them.
C21_InsufficientData ==
  /\ lpc = "hysteresis_done" =>
       (Len(larg.window) < 3 =>
          /\ lout.harp_metrics = {} /\ lout.zuecco_metrics = {}
          /\ lout.lloyd_metrics = {} /\ lout.classifications = {}
          /\ lout.error # "")
  /\ lpc = "dynamics_done" =>
       LET n == Cardinality(CompleteRows(larg.window))
       IN /\ Len(larg.window) = 0 => lout.kind = "none"
          /\ (\A k \in DOMAIN larg.window : larg.window[k].Q = NaN)
               => lout.kind = "none"
          /\ n < 2 => lout.kind = "none"
          /\ lout.has_hi => n >= 5
          /\ (n >= 2 /\ n <= 4) =>
               /\ lout.kind = "dict" /\ ~lout.has_hi
               /\ lout.flow_phase # "" /\ lout.days_since_peak # NaN
          /\ n >= 5 => lout.kind = "dict" /\ lout.has_hi

\* C21 witness: a window of four complete rows gives the flow phase of a
\* peak three days back and no window_HI_* keys
C21_Witness ==
  /\ lpc = "dynamics_done"
  /\ Len(larg.window) = 4 /\ Cardinality(CompleteRows(larg.window)) = 4
  /\ larg.window[1].Q = 40 /\ larg.window[4].Q = 5
  /\ lout.kind = "dict" /\ lout.days_since_peak = 3
  /\ lout.flow_phase = "post_peak" /\ ~lout.has_hi


\* ------------------------------------------------------------------------
\* Claims about the softer rules of classify_segment_phase (SpecClassify)
\* ------------------------------------------------------------------------
\* The returned rule trail holds the name
InTrail(name) == \E i \in DOMAIN cout.rules : cout.rules[i] = name

\* C22: Phase F returned on the strength of an earlier steep decline (rule
\* 'aftermath_stable' after a steep previous segment, or rule
\* 'prev2_steep_decline' after a steep segment two back), the current
\* segment not being steep during elevated flow, implies that flow is still
\* elevated (q_high), that highres_days_since_peak is a number below 15, and
\* that the confidence lies in [0.70, 0.85].
C22_EarlierDecline ==
  (/\ cpc = "done" /\ cout.phase = "F"
   /\ ~(current_steep(crow, cperc) /\ (q_at_peak(crow) \/ q_high(crow)))
   /\ InTrail("aftermath_stable") \/ InTrail("prev2_steep_decline"))
  => /\ q_high(crow)
     /\ ~IsNaN(days_since_peak(crow)) /\ days_since_peak(crow) < 15
     /\ cout.confidence >= 70 /\ cout.confidence <= 85

\* The log-log C-Q slope of the row is a number of magnitude below 0.1
SlopeBelowTenth == IsNum(crow.cq_slope_loglog) /\ Abs(crow.cq_slope_loglog) < 10

\* The log-log C-Q slope of the row is absent or NaN
SlopeUndefined == crow.cq_slope_loglog \in {Missing, NaN}

\* The conditions under which Phase C is returned
ChemostaticConditions ==
  /\ Abs(Hi(crow)) < 12
  /\ GetTag(crow.HI_transition, "stable") = "stable"
  /\ ~(c_pos(crow) = "high" /\ Gt(conc_diff(crow), 0))
  /\ ~(q_high(crow) /\ Gt(Abs(conc_diff(crow)), cperc.abs_dC_p75))
  /\ ~(in_post_flush(crow, cperc) /\ post_peak(crow))

\* ------------------------------------------------------------------------
\* Claims about the Chemostatic and Dilution levels (checked under SpecLower)
\* ------------------------------------------------------------------------
\* C23: Phase C is returned only when |HI| < 0.12, HI_transition is
\* 'stable', the row is not (C_position high with conc_diff > 0), not (flow
\* high with |conc_diff| > abs_dC_p75) and not (post-flush and post-peak);
\* its confidence is 0.90 when |slope| < 0.1 and 0.85 otherwise.
C23_Chemostatic ==
  (cpc = "done" /\ cout.phase = "C") =>
    /\ ChemostaticConditions
    /\ cout.confidence = (IF SlopeBelowTenth THEN 90 ELSE 85)

\* C23 as the code has it: the same conditions; the confidence is 0.90 when
\* |slope| < 0.1 and also when the row has no slope or a NaN slope, and 0.85
\* only for a slope that is a number of magnitude 0.1 or more.
C23_ChemostaticOrNoSlope ==
  (cpc = "done" /\ cout.phase = "C") =>
    /\ ChemostaticConditions
    /\ cout.confidence = (IF SlopeBelowTenth \/ SlopeUndefined THEN 90 ELSE 85)
    /\ InTrail("flat_cq_slope_chemostatic") <=> cout.confidence = 90

\* C23 witness: a row without a slope is returned as C with 0.90
C23_Witness ==
  /\ cpc = "done" /\ cout.phase = "C" /\ cout.confidence = 90
  /\ crow.cq_slope_loglog = NaN
  /\ InTrail("flat_cq_slope_chemostatic")

\* ------------------------------------------------------------------------
\* Claims about the C trajectory tag (checked under SpecTrajectory)
\* ------------------------------------------------------------------------
\* The tests of the trajectory in the order they are made, each with the tag
\* it gives
TrajectoryTests ==
  LET d == larg.row.conc_diff
      t == larg.percentiles
      high == larg.row.C_position = "high"
  IN << [test |-> d < t.dC_p08,
         tag |-> IF larg.row.prev_C_position = "high"
                 THEN "steep_decline_from_high" ELSE "steep_decline"],
        [test |-> d < t.dC_p25, tag |-> "gradual_decline"],
        [test |-> d > t.dC_p90,
         tag |-> IF high THEN "rising_to_max" ELSE "large_increase"],
        [test |-> d > t.dC_p75, tag |-> "moderate_increase"],
        [test |-> high /\ (IF d < 0 THEN -d ELSE d) < t.abs_dC_p50,
         tag |-> "at_maximum"],
        [test |-> TRUE, tag |-> "stable"] >>

\* C24: the segment gets one C_trajectory tag, that of the first test that
\* matches: conc_diff < dC_p08 gives 'steep_decline_from_high' if the
\* previous C_position is 'high', else 'steep_decline'; conc_diff < dC_p25
\* 'gradual_decline'; conc_diff > dC_p90 'rising_to_max' if C_position is
\* 'high', else 'large_increase'; conc_diff > dC_p75 'moderate_increase';
\* C_position 'high' with |conc_diff| < abs_dC_p50 'at_maximum'; otherwise
\* 'stable'.  Nothing else of the row changes.
C24_TrajectoryFirstMatch ==
  lpc = "done" =>
    /\ \E k \in DOMAIN TrajectoryTests :
         /\ TrajectoryTests[k].test
         /\ \A j \in 1..(k - 1) : ~TrajectoryTests[j].test
         /\ lout.C_trajectory = TrajectoryTests[k].tag
    /\ lout = [larg.row EXCEPT !.C_trajectory = lout.C_trajectory]

\* C24 witness: a segment at high concentration whose change is below
\* abs_dC_p50 but above dC_p90 (a compound that fell nearly always) is a
\* 'rising_to_max', not 'at_maximum'.
C24_Witness ==
  /\ lpc = "done"
  /\ larg.row.C_position = "high" /\ larg.row.conc_diff = 0
  /\ larg.percentiles = TableFalling
  /\ lout.C_trajectory = "rising_to_max"

\* ------------------------------------------------------------------------
\* Claims about the hysteresis window (checked under SpecWindow)
\* ------------------------------------------------------------------------
\* The segment's duration in half days, and the extensions of the window
\* before and after the segment in half days
Duration == larg.row.end_date - larg.row.start_date
HeadExtension == larg.row.start_date - lout.segment_start
TailExtension == lout.segment_end - larg.row.end_date

\* C25: the window is [start_date - headex*d, end_date + tailex*d], d being
\* the segment's duration: it contains [start_date, end_date] and is
\* extended before and after by exactly the configured fractions of d.
C25_WindowExtent ==
  lpc = "done" =>
    /\ lout.segment_start <= larg.row.start_date
    /\ lout.segment_end >= larg.row.end_date
    /\ 100 * HeadExtension = larg.headex * Duration
    /\ 100 * TailExtension = larg.tailex * Duration

\* C25 as the code has it: the window contains [start_date, end_date]; each
\* extension is a whole number of days, never more than the configured
\* fraction of the duration and less than one day short of that fraction of
\* the duration's whole days.
C25_WindowExtentWholeDays ==
  lpc = "done" =>
    /\ lout.segment_start <= larg.row.start_date
    /\ lout.segment_end >= larg.row.end_date
    /\ HeadExtension % HalfDaysPerDay = 0
    /\ TailExtension % HalfDaysPerDay = 0
    /\ 100 * HeadExtension <= larg.headex * Duration
    /\ 100 * TailExtension <= larg.tailex * Duration
    /\ 100 * (HeadExtension + HalfDaysPerDay) > larg.headex * HalfDaysPerDay * (Duration \div HalfDaysPerDay)
    /\ 100 * (TailExtension + HalfDaysPerDay) > larg.tailex * HalfDaysPerDay * (Duration \div HalfDaysPerDay)

\* C25 witness: a segment of 7 days with the default fractions 0.4 and 0.2
\* gets a window from 2 days before its start (not 2.8) to 1 day after its
\* end (not 1.4).
C25_Witness ==
  /\ lpc = "done"
  /\ Duration = 14 /\ larg.headex = 40 /\ larg.tailex = 20
  /\ HeadExtension = 4 /\ TailExtension = 2

\* ------------------------------------------------------------------------
\* Claims about the rule trail and the temporal context of
\* classify_segment_phase (checked under SpecClassify)
\* ------------------------------------------------------------------------
\* The rule names each priority level appends
LevelNames ==
  [F |-> {"current_steep_decline", "q_high_or_peak",
          "positive_cq_slope_dilution", "c_was_high", "high_wai_wet",
          "prev_steep_decline", "q_high", "recent_peak", "aftermath_stable",
          "positive_cq_slope_confirms", "prev2_steep_decline", "q_at_peak",
          "positive_cq_slope", "extreme_decline", "positive_cq_slope_strong",
          "q_elevated"},
   L |-> {"c_high", "c_rising", "negative_cq_slope_enrichment",
          "q_not_peaked", "low_wai_accumulation", "large_c_increase",
          "q_stable", "negative_cq_slope_confirms"},
   C |-> {"low_hi", "stable_hi", "flat_cq_slope_chemostatic", "not_dynamic"},
   D |-> {"post_peak", "q_declining", "c_stable", "recent_flush",
          "c_depleted", "large_q_drop", "c_not_changing"},
   R |-> {"low_cvc_cvq", "q_declining", "late_cycle", "both_declining"},
   V |-> {"fallback_variable"}]

\* C26: the rule trail holds only names appended by the priority level
\* whose phase is returned; names of a higher-priority level that was tested
\* but did not return never appear in it, and every V result has the trail
\* ['fallback_variable'].
C26_TrailOfReturningLevel ==
  cpc = "done" =>
    /\ \A i \in DOMAIN cout.rules : cout.rules[i] \in LevelNames[cout.phase]
    /\ cout.phase = "V" => cout.rules = <<"fallback_variable">>

\* The row is the first segment of its site as the run hands it over: the
\* placeholders 'none' and 0 stand for the segments before it (or the row
\* has no such fields at all, as in a run without high-resolution data).
FirstSegmentOfSite ==
  /\ crow.prev_C_position \in {"none", "missing"}
  /\ crow.prev_conc_diff \in {0, Missing}
  /\ crow.prev2_conc_diff \in {0, Missing}

\* The Chemostatic rule met all its other tests and was held back by the
\* post-flush exclusion.
PostFlushExcluded ==
  /\ InTrail("low_hi") /\ cout.phase # "C"
  /\ ~(c_high_rising(crow)
        \/ (q_high(crow) /\ Gt(Abs(conc_diff(crow)), cperc.abs_dC_p75)))

\* C27: for the first segment of a site no rule that cites a decline in an
\* earlier segment fires, whatever the signs of dC_p08 and dC_p25: the trail
\* holds none of 'prev_steep_decline', 'prev2_steep_decline' and
\* 'recent_flush', and the row is not kept from Chemostatic as post-flush.
C27_PlaceholderIsNoDecline ==
  (cpc = "done" /\ FirstSegmentOfSite) =>
    /\ ~InTrail("prev_steep_decline")
    /\ ~InTrail("prev2_steep_decline")
    /\ ~InTrail("recent_flush")
    /\ ~PostFlushExcluded

\* ------------------------------------------------------------------------
\* Claims about the Dilution level (checked under SpecLower)
\* ------------------------------------------------------------------------
\* The result is a D of the alternative rule: 'large_q_drop' ends in a return
ByLargeDrop == cout.phase = "D" /\ InTrail("large_q_drop")

\* C28: whenever D is returned through the alternative rule ('large_q_drop',
\* 0.80), flow_diff >= 0; a row with flow_diff < 0 that meets the
\* alternative rule's conditions is returned by the post-flush recovery
\* rule with 0.85 or 0.75 (or by a level before Dilution); and with
\* dQ_p10 <= 0 the confidence 0.80 is never produced for D.
C28_LargeDropUnreachableBelowZero ==
  cpc = "done" =>
    /\ ByLargeDrop => cout.confidence = 80 /\ flow_diff(crow) >= 0
    /\ (/\ flow_diff(crow) < 0
        /\ post_peak_phase(crow)
        /\ Lt(flow_diff(crow), cperc.dQ_p10)
        /\ Lt(Abs(conc_diff(crow)), cperc.abs_dC_p75)
        /\ (prev_c_declining(crow, cperc) \/ prev2_c_declining(crow, cperc)))
       => \/ cout.phase \in {"F", "L", "C"}
          \/ cout.phase = "D" /\ cout.confidence \in {75, 85}
                /\ InTrail("q_declining")
    /\ (cperc.dQ_p10 <= 0 /\ cout.phase = "D") => cout.confidence # 80

\* C28 witness: with dQ_p10 = 2 an unchanged flow is a large drop, and the
\* row is returned as D 0.80 by the alternative rule.
C28_Witness ==
  /\ cpc = "done" /\ ByLargeDrop /\ cout.confidence = 80
  /\ flow_diff(crow) = 0 /\ cperc.dQ_p10 > 0

\* ------------------------------------------------------------------------
\* Claims about the Zuecco class of consistent areas (SpecZuecco)
\* ------------------------------------------------------------------------
\* Every differential area is a finite number
AreasFinite == \A k \in DOMAIN larg.diff_area : ~IsNaN(larg.diff_area[k])

\* The excursions of C above and below its start differ on the rising limb,
\* or else on the falling limb: _determine_class is called
ExcursionsUnequal ==
  LET p == PeakPos(larg.x)
      n == Len(larg.y)
  IN \/ Excursion(larg.y, 1, p, TRUE) # Excursion(larg.y, 1, p, FALSE)
     \/ Excursion(larg.y, p, n, TRUE) # Excursion(larg.y, p, n, FALSE)

\* C29: with min_diff_area, max_diff_area and h_index the minimum, the
\* maximum and the sum of finite differential areas, and unequal excursion
\* magnitudes, the class is 0 only when every differential area is 0; every
\* other combination of areas falls in one of the classes 1..8.
C29_ClassZeroOnlyForZeroAreas ==
  (lpc = "done" /\ AreasFinite /\ ExcursionsUnequal) =>
    /\ lout.min_diff_area = SeriesMin(larg.diff_area)
    /\ lout.max_diff_area = SeriesMax(larg.diff_area)
    /\ lout.h_index = SeriesSum(larg.diff_area)
    /\ lout.hyst_class \in 0..8
    /\ lout.hyst_class = 0 <=>
         (\A k \in DOMAIN larg.diff_area : larg.diff_area[k] = 0)

\* C29 witness: areas that are negative or zero, with unequal excursions:
\* min_diff_area < 0, max_diff_area = 0 and a negative sum are class 3 or 7,
\* not 0.
C29_Witness ==
  /\ lpc = "done" /\ AreasFinite /\ ExcursionsUnequal
  /\ lout.min_diff_area < 0 /\ lout.max_diff_area = 0 /\ lout.h_index < 0
  /\ lout.hyst_class \in {3, 7}

\* ------------------------------------------------------------------------
\* Claims about the water-availability index (checked under SpecWai)
\* ------------------------------------------------------------------------
\* The observation of `site` at `date` (a site has one observation per date)
OwnObservation(site, date) ==
  CHOOSE k \in DOMAIN larg.data :
    larg.data[k].site_id = site /\ larg.data[k].date = date

\* C30: the WAI attached to a segment is the water-availability value
\* recorded for the segment's own site at its end date, whatever other sites
\* recorded on that date; without a water-availability column no WAI is
\* attached.
C30_OwnSiteWAI ==
  lpc = "done" =>
    \A k \in DOMAIN lout :
      IF larg.water_avail_col
      THEN lout[k].WAI = larg.data[OwnObservation(lout[k].site_id, lout[k].end_date)].WAI
      ELSE lout[k].WAI = Missing

====
